---- MODULE Spec2Model ----
(***************************************************************************)
(* A model of the SCAT inference pipeline (geoassign/scat/pipeline.py):    *)
(* the typed error, the genotype token decoder, the VCF parser, the        *)
(* converter that writes the merged genotype and location files, the SCAT  *)
(* invoker and the orchestrating run, alone and as two run calls           *)
(* interleaved over one file system; of the credible-region estimator      *)
(* (geoassign/utils/credible_region.py); and of the two API views that     *)
(* call the pipeline (geoassign/api/views.py).                             *)
(*                                                                         *)
(* Text is modelled at the granularity the code works on it.  A genotype   *)
(* token is a sequence of one-character strings; a VCF line is the         *)
(* sequence of its tab-separated columns, the FORMAT and sample columns    *)
(* being the sequences of their colon-separated subfields; a file is a     *)
(* sequence of lines.  A formatted message is the sequence of the pieces   *)
(* its f-string concatenates.                                              *)
(***************************************************************************)
EXTENDS Integers, Sequences, FiniteSets, TLC

VARIABLES
    gt,            \* _parse_genotype: the token given
    alleles,       \* _parse_genotype: the pair returned (<<>> before the call)
    vcf_in,        \* _parse_vcf called alone: the file given
    vcf_out,       \* _parse_vcf called alone: what it returned or raised
    fs,            \* which of the four reference files exist
    training_vcf,  \* content of the training genotype file
    training_loc,  \* content of the training location file
    num_snps,      \* SCATPipeline.num_snps
    pc,            \* position of the pipeline object and of its run call
    ctor_err,      \* the error __init__ raised
    test_vcf,      \* content of the file the run's test_vcf path names
    parsed,        \* run: locals of _convert_vcfs_to_scat_format
    merged_geno,   \* out_dir/merged_genotype.txt
    merged_loc,    \* out_dir/merged_location.txt
    conv_err,      \* the error _convert_vcfs_to_scat_format raised
    proc,          \* the subprocess.run call of _run_scat and its outcome
    scat_err,      \* the error _run_scat raised
    run_result,    \* what run returned or raised
    inst,          \* concurrent runs: the attributes of the pipeline instances
    disk,          \* concurrent runs: the files that exist, by path
    runs,          \* concurrent runs: the locals of each run call
    writes,        \* concurrent runs: the paths opened for writing so far
    cr_file,       \* credible region: the posterior-sample file given
    cr_conf,       \* credible region: the confidence given, in hundredths
    cr_samples,    \* credible region: what read_scat_samples returned or raised
    cr_out,        \* credible region: what the estimator returned or raised
    tp,            \* API: the call of the test_pipeline view and its response
    posts          \* API: the locals of each call of GeographicAssignmentView.post

vars == <<gt, alleles, vcf_in, vcf_out, fs, training_vcf, training_loc, num_snps,
          pc, ctor_err, test_vcf, parsed, merged_geno, merged_loc, conv_err,
          proc, scat_err, run_result, inst, disk, runs, writes,
          cr_file, cr_conf, cr_samples, cr_out, tp, posts>>

gtVars == <<gt, alleles>>
vcfVars == <<vcf_in, vcf_out>>
pipeVars == <<fs, training_vcf, training_loc, num_snps, pc, ctor_err, test_vcf,
              parsed, merged_geno, merged_loc, conv_err, proc, scat_err,
              run_result>>
runsVars == <<inst, disk, runs, writes>>
crVars == <<cr_file, cr_conf, cr_samples, cr_out>>
apiVars == <<tp, posts>>

(***************************************************************************)
(* Bounds of the model.                                                    *)
(***************************************************************************)
MaxTokLen == 4      \* longest genotype token decoded alone
MaxVcfLines == 3    \* most lines after the header of a file parsed alone
MaxRef == 2         \* most samples of the reference panel
MaxLoci == 2        \* most data lines of a file given to the pipeline
MaxSampleLines == 4 \* most lines of a posterior-sample file

Range(s) == {s[i] : i \in DOMAIN s}

SeqsUpTo(S, n) == UNION {[1..k -> S] : k \in 0..n}

(***************************************************************************)
(* SCATPipelineError                                                       *)
(***************************************************************************)
ERROR_CODES ==
    [MISSING_FILES |-> "E001", INVALID_VCF |-> "E002",
     INVALID_COORDINATES |-> "E003", SCAT_EXECUTION |-> "E004",
     GENOTYPE_MISMATCH |-> "E005", FILE_PARSING |-> "E006",
     PERMISSION_DENIED |-> "E007", UNKNOWN |-> "E999"]

\* None for a string argument, and for a text argument; both are falsy.
NoStr == ""
NoText == <<>>
NoError == [kind |-> "none"]

\* SCATPipelineError.__init__: error_code defaults to UNKNOWN; the full
\* message handed to Exception appends details, file and suggestion.
SCATPipelineError(message, error_code, details, file_path, suggestion) ==
    LET code == IF error_code # NoStr THEN error_code ELSE ERROR_CODES.UNKNOWN
    IN  [kind |-> "SCATPipelineError",
         message |-> message,
         error_code |-> code,
         details |-> details,
         file_path |-> file_path,
         suggestion |-> suggestion,
         full |-> <<"[", code, "] ">> \o message
                  \o (IF details # NoText THEN <<"\nDetails: ">> \o details ELSE <<>>)
                  \o (IF file_path # NoStr THEN <<"\nFile: ", file_path>> ELSE <<>>)
                  \o (IF suggestion # NoText THEN <<"\nSuggestion: ">> \o suggestion
                                              ELSE <<>>)]

\* SCATPipelineError.__str__
Str(e) == e.message

\* str() of an integer, as the f-strings and str(...) calls format it.
DecDigits == <<"0", "1", "2", "3", "4", "5", "6", "7", "8", "9">>

RECURSIVE IntToStr(_)
IntToStr(n) ==
    IF n < 0 THEN "-" \o IntToStr(-n)
    ELSE IF n < 10 THEN DecDigits[n + 1]
    ELSE IntToStr(n \div 10) \o DecDigits[(n % 10) + 1]

(***************************************************************************)
(* SCATPipeline._parse_genotype                                            *)
(***************************************************************************)
\* The characters genotype tokens are drawn from.
GtChars == {"0", "1", "2", "-", ".", "/", "|", "a"}

Tokens == SeqsUpTo(GtChars, MaxTokLen)

\* gt in ["./.", ".", "./0", "0/."]
MissingTokens ==
    {<<".", "/", ".">>, <<".">>, <<".", "/", "0">>, <<"0", "/", ".">>}

Contains(s, c) == \E i \in DOMAIN s : s[i] = c

\* str.split(sep) for a one-character separator.
RECURSIVE Split(_, _)
Split(s, sep) ==
    IF ~Contains(s, sep) THEN <<s>>
    ELSE LET i == CHOOSE k \in DOMAIN s :
                      s[k] = sep /\ \A j \in 1..(k - 1) : s[j] # sep
         IN  <<SubSeq(s, 1, i - 1)>> \o Split(SubSeq(s, i + 1, Len(s)), sep)

\* int(s) accepts an optional sign followed by at least one decimal digit.
Unsigned(s) == IF s # <<>> /\ s[1] \in {"+", "-"} THEN Tail(s) ELSE s

IsIntLiteral(s) ==
    /\ Unsigned(s) # <<>>
    /\ \A i \in DOMAIN Unsigned(s) : Unsigned(s)[i] \in Range(DecDigits)

DigitVal(c) == (CHOOSE i \in DOMAIN DecDigits : DecDigits[i] = c) - 1

RECURSIVE NatOf(_)
NatOf(s) ==
    IF s = <<>> THEN 0
    ELSE 10 * NatOf(SubSeq(s, 1, Len(s) - 1)) + DigitVal(s[Len(s)])

IntOf(s) == IF s[1] = "-" THEN -NatOf(Unsigned(s)) ELSE NatOf(Unsigned(s))

\* parse_genotype with "/" as the only separator.
parse_genotype_slash_only(g) ==
    IF g \in MissingTokens THEN <<-9, -9>>
    ELSE LET parts == Split(g, "/")
         IN  IF Len(parts) = 2 /\ IsIntLiteral(parts[1]) /\ IsIntLiteral(parts[2])
             THEN <<IntOf(parts[1]) + 1, IntOf(parts[2]) + 1>>
             ELSE <<-9, -9>>

\* The separator chosen and the two values unpacked from map(int, ...);
\* a ValueError (wrong number of parts, a part int() rejects) is caught and
\* gives the missing pair.
parse_genotype(g) ==
    IF g \in MissingTokens THEN <<-9, -9>>
    ELSE LET sep == IF Contains(g, "/") THEN "/" ELSE "|"
             parts == Split(g, sep)
         IN  IF Len(parts) = 2 /\ IsIntLiteral(parts[1]) /\ IsIntLiteral(parts[2])
             THEN <<IntOf(parts[1]) + 1, IntOf(parts[2]) + 1>>
             ELSE <<-9, -9>>

(***************************************************************************)
(* The error constructors (class methods of SCATPipelineError)             *)
(***************************************************************************)
\* "\n".join(f"  - {f}" for f in missing_files)
RECURSIVE JoinMissing(_)
JoinMissing(names) ==
    IF names = <<>> THEN <<>>
    ELSE <<"  - ", Head(names)>>
         \o (IF Len(names) > 1 THEN <<"\n">> ELSE <<>>)
         \o JoinMissing(Tail(names))

missing_files(missing, reference_dir) ==
    SCATPipelineError(<<"Missing required reference files">>,
                      ERROR_CODES.MISSING_FILES,
                      <<"Missing files:\n">> \o JoinMissing(missing),
                      NoStr,
                      <<"Ensure all required files exist in ", reference_dir>>)

invalid_vcf(vcf_path, reason) ==
    SCATPipelineError(<<"Invalid VCF file: ">> \o reason,
                      ERROR_CODES.INVALID_VCF,
                      NoText,
                      vcf_path,
                      <<"Check VCF format and ensure it contains valid genotype data">>)

scat_execution_failed(command, return_code, stdout, stderr) ==
    SCATPipelineError(<<"SCAT execution failed">>,
                      ERROR_CODES.SCAT_EXECUTION,
                      <<"Command: ", command, "\nReturn code: ", IntToStr(return_code)>>
                      \o (IF stdout # NoStr THEN <<"\nSTDOUT: ", stdout>> ELSE <<>>)
                      \o (IF stderr # NoStr THEN <<"\nSTDERR: ", stderr>> ELSE <<>>),
                      NoStr,
                      <<"Check SCAT installation and input file formats">>)

\* genotype_mismatch reporting the test count in both places.
genotype_mismatch_one_count(test_loci, training_loci) ==
    SCATPipelineError(<<"Genotype data mismatch between test and training samples">>,
                      ERROR_CODES.GENOTYPE_MISMATCH,
                      <<"Test sample has ", IntToStr(test_loci),
                        " loci, training data has ", IntToStr(test_loci), " loci">>,
                      NoStr,
                      <<"Ensure test VCF contains the same SNP panel as training data">>)

genotype_mismatch(test_loci, training_loci) ==
    SCATPipelineError(<<"Genotype data mismatch between test and training samples">>,
                      ERROR_CODES.GENOTYPE_MISMATCH,
                      <<"Test sample has ", IntToStr(test_loci),
                        " loci, training data has ", IntToStr(training_loci), " loci">>,
                      NoStr,
                      <<"Ensure test VCF contains the same SNP panel as training data">>)

\* capitalize() leaving its argument as it is.
Capitalize_unchanged(file_type) == file_type

\* file_type.capitalize() of "VCF" is "Vcf".
Capitalize(file_type) == IF file_type = "VCF" THEN "Vcf" ELSE file_type

file_not_found(file_path, file_type) ==
    SCATPipelineError(<<Capitalize(file_type), " not found">>,
                      ERROR_CODES.MISSING_FILES,
                      NoText,
                      file_path,
                      <<"Check that ", file_path, " exists and is accessible">>)

permission_denied(file_path, operation) ==
    SCATPipelineError(<<"Permission denied: cannot ", operation, " file">>,
                      ERROR_CODES.PERMISSION_DENIED,
                      NoText,
                      file_path,
                      <<"Check file permissions and ensure read/write access">>)

(***************************************************************************)
(* SCATPipeline._parse_vcf                                                 *)
(***************************************************************************)
\* What a function returned or raised.
Returned(v) == [kind |-> "ok", value |-> v, err |-> NoError]
Raised(e) == [kind |-> "raise", value |-> <<>>, err |-> e]
NotCalled == [kind |-> "none", value |-> <<>>, err |-> NoError]

\* line.startswith("#"), on the first column of a line.
StartsWithHash(col) == col \in {"#CHROM", "##fileformat=VCFv4.2"}

\* A line that is empty after strip() splits into one empty column.
IsBlank(parts) == Len(parts) = 1 /\ parts[1] = ""

\* fmt.index("GT"), 0-based.
FmtIndexGT(fmt) ==
    (CHOOSE k \in DOMAIN fmt : fmt[k] = "GT" /\ \A j \in 1..(k - 1) : fmt[j] # "GT") - 1

\* for i, s in enumerate(samples): ... genos[s].append(alleles)
RECURSIVE scan_samples(_, _, _, _, _)
scan_samples(parts, fmt, samples, i, genos) ==
    IF i >= Len(samples) THEN genos
    ELSE LET s == samples[i + 1]
         IN  IF 9 + i >= Len(parts)
             THEN scan_samples(parts, fmt, samples, i + 1, genos)
             ELSE LET fields == parts[9 + i + 1]
                  IN  IF Len(fields) <= FmtIndexGT(fmt)
                      THEN scan_samples(parts, fmt, samples, i + 1, genos)
                      ELSE scan_samples(parts, fmt, samples, i + 1,
                               [genos EXCEPT
                                  ![s] = Append(@, parse_genotype(fields[FmtIndexGT(fmt) + 1]))])

\* The loop over the lines, ended at the first data line of fewer than 9
\* columns (break for continue).
RECURSIVE scan_lines_break(_, _, _, _, _)
scan_lines_break(vcf_path, lines, line_num, samples, genos) ==
    IF line_num > Len(lines) THEN Returned([samples |-> samples, genos |-> genos])
    ELSE LET parts == lines[line_num]
         IN  IF parts[1] = "#CHROM"
             THEN IF Len(parts) < 9
                  THEN Raised(invalid_vcf(vcf_path,
                                  <<"invalid header at line ", IntToStr(line_num),
                                    ": insufficient columns">>))
                  ELSE LET new == SubSeq(parts, 10, Len(parts))
                       IN  scan_lines_break(vcf_path, lines, line_num + 1, new,
                               [s \in (DOMAIN genos) \cup Range(new) |->
                                   IF s \in Range(new) THEN <<>> ELSE genos[s]])
             ELSE IF ~StartsWithHash(parts[1]) /\ ~IsBlank(parts)
             THEN IF Len(parts) < 9
                  THEN Returned([samples |-> samples, genos |-> genos])
                  ELSE IF ~Contains(parts[9], "GT")
                  THEN scan_lines_break(vcf_path, lines, line_num + 1, samples, genos)
                  ELSE scan_lines_break(vcf_path, lines, line_num + 1, samples,
                                  scan_samples(parts, parts[9], samples, 0, genos))
             ELSE scan_lines_break(vcf_path, lines, line_num + 1, samples, genos)

\* for line_num, line in enumerate(f, 1): ...
RECURSIVE scan_lines(_, _, _, _, _)
scan_lines(vcf_path, lines, line_num, samples, genos) ==
    IF line_num > Len(lines) THEN Returned([samples |-> samples, genos |-> genos])
    ELSE LET parts == lines[line_num]
         IN  IF parts[1] = "#CHROM"
             THEN IF Len(parts) < 9
                  THEN Raised(invalid_vcf(vcf_path,
                                  <<"invalid header at line ", IntToStr(line_num),
                                    ": insufficient columns">>))
                  ELSE LET new == SubSeq(parts, 10, Len(parts))
                       IN  scan_lines(vcf_path, lines, line_num + 1, new,
                               [s \in (DOMAIN genos) \cup Range(new) |->
                                   IF s \in Range(new) THEN <<>> ELSE genos[s]])
             ELSE IF ~StartsWithHash(parts[1]) /\ ~IsBlank(parts)
             THEN IF Len(parts) < 9
                  THEN scan_lines(vcf_path, lines, line_num + 1, samples, genos)
                  ELSE IF ~Contains(parts[9], "GT")
                  THEN scan_lines(vcf_path, lines, line_num + 1, samples, genos)
                  ELSE scan_lines(vcf_path, lines, line_num + 1, samples,
                                  scan_samples(parts, parts[9], samples, 0, genos))
             ELSE scan_lines(vcf_path, lines, line_num + 1, samples, genos)

\* _parse_vcf without the check for no samples.
parse_vcf_unchecked(vcf_path, file) ==
    IF file.st = "missing" THEN Raised(file_not_found(vcf_path, "VCF"))
    ELSE IF file.st = "noperm" THEN Raised(permission_denied(vcf_path, "read"))
    ELSE LET r == scan_lines(vcf_path, file.lines, 1, <<>>, <<>>)
         IN  IF r.kind = "raise"
             THEN Raised(invalid_vcf(vcf_path, <<"parsing failed: ">> \o Str(r.err)))
             ELSE r

\* The try block with its except clauses, then the check for no samples.  An
\* error raised inside the block is an Exception too: the last clause wraps
\* it in a new invalid_vcf.
parse_vcf(vcf_path, file) ==
    IF file.st = "missing" THEN Raised(file_not_found(vcf_path, "VCF"))
    ELSE IF file.st = "noperm" THEN Raised(permission_denied(vcf_path, "read"))
    ELSE LET r == scan_lines(vcf_path, file.lines, 1, <<>>, <<>>)
         IN  IF r.kind = "raise"
             THEN Raised(invalid_vcf(vcf_path, <<"parsing failed: ">> \o Str(r.err)))
             ELSE IF r.value.samples = <<>>
             THEN Raised(invalid_vcf(vcf_path, <<"no samples found">>))
             ELSE r

(***************************************************************************)
(* The genotype files the parser is given                                  *)
(***************************************************************************)
HeaderCols ==
    <<"#CHROM", "POS", "ID", "REF", "ALT", "QUAL", "FILTER", "INFO", "FORMAT">>

MetaCols == <<"chr1", "100", "rs1", "A", "G", ".", "PASS", ".">>

DepthField == <<"5">>

\* The genotype tokens of the files; sample i of data line j carries one of
\* them in turn.
FileTokens ==
    << <<"0", "/", "1">>, <<"1", "|", "1">>, <<".", "/", ".">>, <<"0", "/", "0">> >>

TokenAt(i, j) == FileTokens[((i + j - 2) % Len(FileTokens)) + 1]

\* The shapes of a line after the header: well-formed with FORMAT GT or
\* DP:GT, fewer than 9 columns, FORMAT without GT, one sample column fewer
\* than the header, last sample field shorter than FORMAT, comment, blank.
LineShapes ==
    {"full", "dpgt", "short", "nogt", "ragged", "shortfield", "comment", "blank"}

data_line(shape, k, j) ==
    CASE shape = "full" ->
           MetaCols \o << <<"GT">> >> \o [i \in 1..k |-> <<TokenAt(i, j)>>]
      [] shape = "dpgt" ->
           MetaCols \o << <<"DP", "GT">> >>
                    \o [i \in 1..k |-> <<DepthField, TokenAt(i, j)>>]
      [] shape = "short" -> MetaCols
      [] shape = "nogt" ->
           MetaCols \o << <<"DP">> >> \o [i \in 1..k |-> <<DepthField>>]
      [] shape = "ragged" ->
           MetaCols \o << <<"GT">> >>
                    \o [i \in 1..(IF k > 0 THEN k - 1 ELSE 0) |-> <<TokenAt(i, j)>>]
      [] shape = "shortfield" ->
           MetaCols \o << <<"DP", "GT">> >>
                    \o [i \in 1..k |-> IF i = k THEN <<DepthField>>
                                       ELSE <<DepthField, TokenAt(i, j)>>]
      [] shape = "comment" -> <<"##fileformat=VCFv4.2">>
      [] OTHER -> <<"">>

\* The header kinds: the #CHROM line with its sample columns, a #CHROM line
\* of 8 columns, no #CHROM line.
HeaderKinds == {"ok", "short", "none"}

header_lines(kind, samples) ==
    CASE kind = "ok" -> <<HeaderCols \o samples>>
      [] kind = "short" -> <<SubSeq(HeaderCols, 1, 8)>>
      [] OTHER -> <<>>

VcfFile(kind, samples, shapes) ==
    [st |-> "ok",
     lines |-> header_lines(kind, samples)
               \o [j \in 1..Len(shapes) |-> data_line(shapes[j], Len(samples), j)]]

MissingFile == [st |-> "missing", lines |-> <<>>]
UnreadableFile == [st |-> "noperm", lines |-> <<>>]

RefNames == <<"A", "B", "C", "D">>

\* The files parsed alone.
VcfFiles ==
    {VcfFile(kind, SubSeq(RefNames, 1, n), shapes) :
        kind \in HeaderKinds, n \in 0..MaxRef,
        shapes \in SeqsUpTo(LineShapes, MaxVcfLines)}
    \cup {MissingFile, UnreadableFile}

(***************************************************************************)
(* SCATPipeline.__init__ and _validate_reference_files                     *)
(***************************************************************************)
\* The keys of required_files, in the dictionary's order.
RequiredFiles ==
    <<"Training VCF", "Training locations", "Grid file", "SCAT executable">>

ReferenceDir == "geoassign/reference/panthera_onca"

\* The paths __init__ derives from species and num_snps.
PathOf(name, n) ==
    CASE name = "Training VCF" ->
           ReferenceDir \o "/panthera_onca." \o IntToStr(n) \o "snps.vcf"
      [] name = "Training locations" -> ReferenceDir \o "/panthera_onca_loc.txt"
      [] name = "Grid file" -> ReferenceDir \o "/panthera_onca_grid.txt"
      [] OTHER -> "~/support_repos/scat/src/SCAT3"

RECURSIVE MissingOf(_, _, _)
MissingOf(names, existing, n) ==
    IF names = <<>> THEN <<>>
    ELSE (IF Head(names) \in existing THEN <<>>
          ELSE <<Head(names) \o ": " \o PathOf(Head(names), n)>>)
         \o MissingOf(Tail(names), existing, n)

\* _validate_reference_files without the check of the executable.
validate_reference_files_no_exec(existing, n) ==
    IF MissingOf(SubSeq(RequiredFiles, 1, 3), existing, n) # <<>>
    THEN Raised(missing_files(MissingOf(SubSeq(RequiredFiles, 1, 3), existing, n),
                              ReferenceDir))
    ELSE Returned(<<>>)

validate_reference_files(existing, n) ==
    IF MissingOf(RequiredFiles, existing, n) # <<>>
    THEN Raised(missing_files(MissingOf(RequiredFiles, existing, n), ReferenceDir))
    ELSE Returned(<<>>)

(***************************************************************************)
(* SCATPipeline._write_genotype_file and _write_location_file              *)
(***************************************************************************)
\* A written line is the sequence of its space-separated tokens.
write_genotype_block(name, loc_id, gts) ==
    << <<name, IntToStr(loc_id)>> \o [k \in 1..Len(gts) |-> IntToStr(gts[k][1])],
       <<name, IntToStr(loc_id)>> \o [k \in 1..Len(gts) |-> IntToStr(gts[k][2])] >>

RECURSIVE write_training_blocks(_, _, _)
write_training_blocks(tr_samples, tr_genos, i) ==
    IF i >= Len(tr_samples) THEN <<>>
    ELSE write_genotype_block(tr_samples[i + 1], i + 1, tr_genos[tr_samples[i + 1]])
         \o write_training_blocks(tr_samples, tr_genos, i + 1)

\* _write_genotype_file with the test specimen written last.
write_genotype_file_test_last(te_name, te_gt, tr_samples, tr_genos) ==
    write_training_blocks(tr_samples, tr_genos, 0)
    \o write_genotype_block(te_name, -1, te_gt)

write_genotype_file(te_name, te_gt, tr_samples, tr_genos) ==
    write_genotype_block(te_name, -1, te_gt)
    \o write_training_blocks(tr_samples, tr_genos, 0)

\* A line of the location file is the sequence of its whitespace-separated
\* tokens; an empty line has none.
CopiedLine(line, te_name) == line # <<>> /\ line[1] # te_name

write_location_file(loc_lines, te_name) ==
    SelectSeq(loc_lines, LAMBDA line : CopiedLine(line, te_name))

(***************************************************************************)
(* SCATPipeline._convert_vcfs_to_scat_format                               *)
(***************************************************************************)
Absent == [written |-> FALSE, rows |-> <<>>]
Written(rows) == [written |-> TRUE, rows |-> rows]

\* An exception that is not a SCATPipelineError.
Exception(msg) == [kind |-> "Exception", message |-> <<msg>>]

\* What open() raises on a file that is missing or unreadable.
OpenError(file) ==
    IF file.st = "missing" THEN Exception("[Errno 2] No such file or directory")
    ELSE Exception("[Errno 13] Permission denied")

TestVcfPath == "uploads/test.vcf"

\* except Exception as e, in _convert_vcfs_to_scat_format
file_parsing_error(e) ==
    SCATPipelineError(<<"Failed to convert VCFs to SCAT format: ">> \o Str(e),
                      ERROR_CODES.FILE_PARSING, NoText, NoStr, NoText)

ConvertOutcome(tr, te, geno, loc, err) ==
    [tr |-> tr, te |-> te, geno |-> geno, loc |-> loc, err |-> err]

\* The conversion returning normally when the location file cannot be
\* opened, the merged location file left unwritten.
convert_vcfs_location_unchecked(tr_path, tr_file, te_file, loc_file) ==
    LET tr == parse_vcf(tr_path, tr_file)
        te == parse_vcf(TestVcfPath, te_file)
    IN  IF tr.kind = "raise"
        THEN ConvertOutcome(tr, NotCalled, Absent, Absent, tr.err)
        ELSE IF te.kind = "raise"
        THEN ConvertOutcome(tr, te, Absent, Absent, te.err)
        ELSE IF Len(te.value.samples) # 1
        THEN ConvertOutcome(tr, te, Absent, Absent,
                 invalid_vcf(TestVcfPath,
                     <<"should contain exactly one sample, found ",
                       IntToStr(Len(te.value.samples))>>))
        ELSE LET te_name == te.value.samples[1]
                 te_gt == te.value.genos[te_name]
                 tr_gt == tr.value.genos[tr.value.samples[1]]
                 geno == Written(write_genotype_file(te_name, te_gt,
                                     tr.value.samples, tr.value.genos))
             IN  IF Len(te_gt) # Len(tr_gt)
                 THEN ConvertOutcome(tr, te, Absent, Absent,
                          genotype_mismatch(Len(te_gt), Len(tr_gt)))
                 ELSE IF loc_file.st # "ok"
                 THEN ConvertOutcome(tr, te, geno, Absent, NoError)
                 ELSE ConvertOutcome(tr, te, geno,
                          Written(write_location_file(loc_file.lines, te_name)),
                          NoError)

\* The conversion without the check of the number of test samples: the
\* first sample of the test file is taken as the specimen.
convert_vcfs_first_sample(tr_path, tr_file, te_file, loc_file) ==
    LET tr == parse_vcf(tr_path, tr_file)
        te == parse_vcf(TestVcfPath, te_file)
    IN  IF tr.kind = "raise"
        THEN ConvertOutcome(tr, NotCalled, Absent, Absent, tr.err)
        ELSE IF te.kind = "raise"
        THEN ConvertOutcome(tr, te, Absent, Absent, te.err)
        ELSE LET te_name == te.value.samples[1]
                 te_gt == te.value.genos[te_name]
                 tr_gt == tr.value.genos[tr.value.samples[1]]
                 geno == Written(write_genotype_file(te_name, te_gt,
                                     tr.value.samples, tr.value.genos))
             IN  IF Len(te_gt) # Len(tr_gt)
                 THEN ConvertOutcome(tr, te, Absent, Absent,
                          genotype_mismatch(Len(te_gt), Len(tr_gt)))
                 ELSE IF loc_file.st # "ok"
                 THEN ConvertOutcome(tr, te, geno, Absent,
                          file_parsing_error(OpenError(loc_file)))
                 ELSE ConvertOutcome(tr, te, geno,
                          Written(write_location_file(loc_file.lines, te_name)),
                          NoError)

convert_vcfs_to_scat_format(tr_path, tr_file, te_file, loc_file) ==
    LET tr == parse_vcf(tr_path, tr_file)
        te == parse_vcf(TestVcfPath, te_file)
    IN  IF tr.kind = "raise"
        THEN ConvertOutcome(tr, NotCalled, Absent, Absent, tr.err)
        ELSE IF te.kind = "raise"
        THEN ConvertOutcome(tr, te, Absent, Absent, te.err)
        ELSE IF Len(te.value.samples) # 1
        THEN ConvertOutcome(tr, te, Absent, Absent,
                 invalid_vcf(TestVcfPath,
                     <<"should contain exactly one sample, found ",
                       IntToStr(Len(te.value.samples))>>))
        ELSE LET te_name == te.value.samples[1]
                 te_gt == te.value.genos[te_name]
                 tr_gt == tr.value.genos[tr.value.samples[1]]
                 geno == Written(write_genotype_file(te_name, te_gt,
                                     tr.value.samples, tr.value.genos))
             IN  IF Len(te_gt) # Len(tr_gt)
                 THEN ConvertOutcome(tr, te, Absent, Absent,
                          genotype_mismatch(Len(te_gt), Len(tr_gt)))
                 ELSE IF loc_file.st # "ok"
                 THEN ConvertOutcome(tr, te, geno, Absent,
                          file_parsing_error(OpenError(loc_file)))
                 ELSE ConvertOutcome(tr, te, geno,
                          Written(write_location_file(loc_file.lines, te_name)),
                          NoError)

(***************************************************************************)
(* SCATPipeline._run_scat                                                  *)
(***************************************************************************)
OutDir == "results/run"
MergedGenoPath == OutDir \o "/merged_genotype.txt"
MergedLocPath == OutDir \o "/merged_location.txt"

\* Path.absolute() of a relative path.
Absolute(path) == "/srv/app/" \o path

\* The command with the location file before the genotype file.
scat_cmd_location_first(n) ==
    <<PathOf("SCAT executable", n), "-A", "1", "1", "-g",
      Absolute(PathOf("Grid file", n)), MergedLocPath, MergedGenoPath, OutDir,
      IntToStr(n), "100", "100", "100">>

scat_cmd(n) ==
    <<PathOf("SCAT executable", n), "-A", "1", "1", "-g",
      Absolute(PathOf("Grid file", n)), MergedGenoPath, MergedLocPath, OutDir,
      IntToStr(n), "100", "100", "100">>

\* " ".join(scat_cmd)
RECURSIVE JoinSpace(_)
JoinSpace(words) ==
    IF words = <<>> THEN ""
    ELSE IF Len(words) = 1 THEN Head(words)
    ELSE Head(words) \o " " \o JoinSpace(Tail(words))

\* What subprocess.run can do: the process exits with a return code and its
\* two captured streams, or the launch itself raises.
ReturnCodes == {0, 1}
ProcOutcomes ==
    {[kind |-> "exit", returncode |-> rc, stdout |-> o, stderr |-> e] :
        rc \in ReturnCodes, o \in {"", "SCAT log"}, e \in {"", "SCAT error"}}
    \cup {[kind |-> "oserror", returncode |-> -1, stdout |-> "", stderr |-> ""]}

NotLaunched == [launched |-> 0, cmd |-> <<>>, cwd |-> "",
                outcome |-> [kind |-> "none", returncode |-> 0,
                             stdout |-> "", stderr |-> ""]]

\* _run_scat without check=True: a non-zero exit returns like a zero one.
run_scat_unchecked(n, outcome) ==
    IF outcome.kind = "oserror"
    THEN Raised(Exception("[Errno 8] Exec format error"))
    ELSE Returned(<<>>)

\* subprocess.run(..., check=True): CalledProcessError on a non-zero exit is
\* turned into scat_execution_failed; any other exception passes through.
run_scat(n, outcome) ==
    IF outcome.kind = "oserror"
    THEN Raised(Exception("[Errno 8] Exec format error"))
    ELSE IF outcome.returncode # 0
    THEN Raised(scat_execution_failed(JoinSpace(scat_cmd(n)), outcome.returncode,
                                      outcome.stdout, outcome.stderr))
    ELSE Returned(<<>>)

(***************************************************************************)
(* SCATPipeline.run                                                        *)
(***************************************************************************)
\* except Exception as e, in run: every exception of the try block, a
\* SCATPipelineError included, is wrapped in a new error with code UNKNOWN.
pipeline_failed(e) ==
    SCATPipelineError(<<"Pipeline execution failed: ">> \o Str(e),
                      ERROR_CODES.UNKNOWN, NoText, NoStr, NoText)

NotParsed == [tr |-> NotCalled, te |-> NotCalled]

\* What out_dir.mkdir(parents=True, exist_ok=True) can do: create the
\* directory (or find it), or raise because the path names a file.
MkdirOutcomes == {"ok", "exists"}

mkdir_error(m) == Exception("[Errno 17] File exists")

(***************************************************************************)
(* The reference sets and test files the pipeline is given                 *)
(***************************************************************************)
TrainShapes == {"full", "nogt", "ragged"}
TestShapes == {"full", "short"}

TrainingFiles(n) ==
    {VcfFile("ok", SubSeq(RefNames, 1, n), shapes) :
        shapes \in SeqsUpTo(TrainShapes, MaxLoci)}
    \cup {VcfFile("short", SubSeq(RefNames, 1, n), <<"full">>),
          VcfFile("none", SubSeq(RefNames, 1, n), <<"full">>),
          UnreadableFile}

\* id, location index, latitude, longitude
LocRow(i) == <<RefNames[i], IntToStr(i), "-10.5", "-55.25">>

\* One row per reference specimen: in the header's order, or in the reverse
\* order with an empty line in between; or a file that cannot be read.
LocationFiles(n) ==
    {[st |-> "ok", lines |-> [i \in 1..n |-> LocRow(i)]],
     [st |-> "ok", lines |-> <<LocRow(n), <<>> >> \o [i \in 1..(n - 1) |-> LocRow(n - i)]],
     UnreadableFile}

\* The test file's samples: one new specimen, one named like a reference
\* specimen, two, none.
TestSampleLists == {<<"X">>, <<"A">>, <<"X", "Y">>, <<>>}

TestFiles ==
    {VcfFile("ok", samples, shapes) :
        samples \in TestSampleLists, shapes \in SeqsUpTo(TestShapes, MaxLoci)}
    \cup {VcfFile("short", <<>>, <<>>), MissingFile, UnreadableFile}

NumSnpsChoices == {2, 84}

(***************************************************************************)
(* Initial states                                                          *)
(***************************************************************************)
GtIdle == gt = <<>> /\ alleles = <<>>
VcfIdle == vcf_in = MissingFile /\ vcf_out = NotCalled

RunIdle ==
    /\ test_vcf = MissingFile
    /\ parsed = NotParsed
    /\ merged_geno = Absent
    /\ merged_loc = Absent
    /\ conv_err = NoError
    /\ proc = NotLaunched
    /\ scat_err = NoError
    /\ run_result = NotCalled

PipeIdle ==
    /\ fs = {}
    /\ training_vcf = MissingFile
    /\ training_loc = MissingFile
    /\ num_snps = 0
    /\ pc = "off"
    /\ ctor_err = NoError
    /\ RunIdle

RunsIdle == inst = <<>> /\ disk = <<>> /\ runs = <<>> /\ writes = {}

CrIdle ==
    cr_file = MissingFile /\ cr_conf = 0 /\ cr_samples = NotCalled /\ cr_out = NotCalled

ApiIdle == tp = NotCalled /\ posts = <<>>

\* Before construction: any of the four reference files may be missing; the
\* ones that exist hold a reference panel of 1..MaxRef specimens.
Init ==
    /\ GtIdle
    /\ VcfIdle
    /\ RunsIdle
    /\ CrIdle
    /\ ApiIdle
    /\ fs \in SUBSET Range(RequiredFiles)
    /\ \E n \in 1..MaxRef :
          /\ training_vcf \in (IF "Training VCF" \in fs THEN TrainingFiles(n)
                               ELSE {MissingFile})
          /\ training_loc \in (IF "Training locations" \in fs THEN LocationFiles(n)
                               ELSE {MissingFile})
    /\ num_snps = 0
    /\ pc = "uninit"
    /\ ctor_err = NoError
    /\ RunIdle

InitGT ==
    gt \in Tokens /\ alleles = <<>> /\ VcfIdle /\ PipeIdle /\ RunsIdle /\ CrIdle /\ ApiIdle

InitVCF ==
    /\ vcf_in \in VcfFiles /\ vcf_out = NotCalled
    /\ GtIdle /\ PipeIdle /\ RunsIdle /\ CrIdle /\ ApiIdle

(***************************************************************************)
(* Actions                                                                 *)
(***************************************************************************)
\* pipeline._parse_genotype(gt)
parse_genotype_call ==
    /\ alleles = <<>>
    /\ alleles' = parse_genotype(gt)
    /\ UNCHANGED <<gt, vcfVars, pipeVars, runsVars, crVars, apiVars>>

\* pipeline._parse_vcf(path)
parse_vcf_call ==
    /\ vcf_out = NotCalled
    /\ vcf_out' = parse_vcf(TestVcfPath, vcf_in)
    /\ UNCHANGED <<vcf_in, gtVars, pipeVars, runsVars, crVars, apiVars>>

\* SCATPipeline(species, num_snps)
construct ==
    /\ pc = "uninit"
    /\ \E n \in NumSnpsChoices :
          LET v == validate_reference_files(fs, n)
          IN  /\ num_snps' = n
              /\ ctor_err' = v.err
              /\ pc' = IF v.kind = "raise" THEN "failed" ELSE "validated"
    /\ UNCHANGED <<gtVars, vcfVars, runsVars, crVars, apiVars, fs, training_vcf, training_loc,
                   test_vcf, parsed,
                   merged_geno, merged_loc, conv_err, proc, scat_err, run_result>>

\* run(test_vcf, output_dir), up to the try block: the existence check and
\* the creation of the output directory, which every call is given anew.
\* Both stand before the try block, so what they raise leaves run as it is.
run_start ==
    /\ pc = "validated"
    /\ \E f \in TestFiles, m \in MkdirOutcomes :
          /\ test_vcf' = f
          /\ IF f.st = "missing"
             THEN /\ run_result' = Raised(file_not_found(TestVcfPath, "VCF"))
                  /\ pc' = "done"
             ELSE IF m # "ok"
             THEN /\ run_result' = Raised(mkdir_error(m))
                  /\ pc' = "done"
             ELSE /\ run_result' = NotCalled
                  /\ pc' = "converting"
    /\ UNCHANGED <<gtVars, vcfVars, runsVars, crVars, apiVars, fs, training_vcf, training_loc,
                   num_snps, ctor_err,
                   parsed, merged_geno, merged_loc, conv_err, proc, scat_err>>

\* run, step 1: _convert_vcfs_to_scat_format, and the except clause of run
\* when it raises.
run_convert ==
    /\ pc = "converting"
    /\ LET c == convert_vcfs_to_scat_format(PathOf("Training VCF", num_snps),
                                            training_vcf, test_vcf, training_loc)
       IN  /\ parsed' = [tr |-> c.tr, te |-> c.te]
           /\ merged_geno' = c.geno
           /\ merged_loc' = c.loc
           /\ conv_err' = c.err
           /\ IF c.err # NoError
              THEN /\ run_result' = Raised(pipeline_failed(c.err))
                   /\ pc' = "done"
              ELSE /\ run_result' = run_result
                   /\ pc' = "invoking"
    /\ UNCHANGED <<gtVars, vcfVars, runsVars, crVars, apiVars, fs, training_vcf, training_loc,
                   num_snps, ctor_err,
                   test_vcf, proc, scat_err>>

\* run, step 2: _run_scat, the return of run when it succeeds and the
\* except clause of run when it raises.
run_invoke ==
    /\ pc = "invoking"
    /\ \E outcome \in ProcOutcomes :
          LET r == run_scat(num_snps, outcome)
          IN  /\ proc' = [launched |-> proc.launched + 1,
                          cmd |-> scat_cmd(num_snps), cwd |-> OutDir,
                          outcome |-> outcome]
              /\ scat_err' = IF r.kind = "raise" /\ r.err.kind = "SCATPipelineError"
                             THEN r.err ELSE NoError
              /\ run_result' = IF r.kind = "raise" THEN Raised(pipeline_failed(r.err))
                               ELSE [kind |-> "ok", value |-> OutDir, err |-> NoError]
    /\ pc' = "done"
    /\ UNCHANGED <<gtVars, vcfVars, runsVars, crVars, apiVars, fs, training_vcf, training_loc,
                   num_snps, ctor_err,
                   test_vcf, parsed, merged_geno, merged_loc, conv_err>>

\* The caller has the outcome of run; the instance is ready for another call.
run_return ==
    /\ pc = "done"
    /\ pc' = "validated"
    /\ test_vcf' = MissingFile
    /\ parsed' = NotParsed
    /\ merged_geno' = Absent
    /\ merged_loc' = Absent
    /\ conv_err' = NoError
    /\ proc' = NotLaunched
    /\ scat_err' = NoError
    /\ run_result' = NotCalled
    /\ UNCHANGED <<gtVars, vcfVars, runsVars, crVars, apiVars, fs, training_vcf, training_loc,
                   num_snps, ctor_err>>

Next == construct \/ run_start \/ run_convert \/ run_invoke \/ run_return

NextGT == parse_genotype_call

NextVCF == parse_vcf_call

Spec == Init /\ [][Next]_vars

SpecGT == InitGT /\ [][NextGT]_vars

SpecVCF == InitVCF /\ [][NextVCF]_vars

(***************************************************************************)
(* Run calls executing concurrently                                        *)
(*                                                                         *)
(* Two callers, each calling run on one of two instances, over one file    *)
(* system.  A run call advances by the steps of run and of                 *)
(* _convert_vcfs_to_scat_format; each step reads and writes the files by   *)
(* their path.                                                             *)
(***************************************************************************)
RunIds == {1, 2}

\* The attributes __init__ sets.
Instance(n) ==
    [species |-> "panthera_onca",
     num_snps |-> n,
     training_vcf |-> PathOf("Training VCF", n),
     training_loc |-> PathOf("Training locations", n),
     grid_file |-> PathOf("Grid file", n),
     scat_exec |-> PathOf("SCAT executable", n)]

\* The paths of an instance's reference files.
ReferencePaths(I) == {I.training_vcf, I.training_loc, I.grid_file, I.scat_exec}

\* merged_geno = out_dir / "merged_genotype.txt" with the directory left out.
merged_genotype_path_shared(out_dir) == "merged_genotype.txt"

merged_genotype_path(out_dir) == out_dir \o "/merged_genotype.txt"

\* merged_loc named like the training location file.
merged_location_path_reference(out_dir) == out_dir \o "/panthera_onca_loc.txt"

merged_location_path(out_dir) == out_dir \o "/merged_location.txt"

\* open(path): the file at the path, or none.
ReadFile(d, path) == IF path \in DOMAIN d THEN d[path] ELSE MissingFile

\* open(path, "w") and the writes up to the end of the with block.
WriteFile(d, path, rows) ==
    [q \in (DOMAIN d) \cup {path} |->
        IF q = path THEN [st |-> "ok", lines |-> rows] ELSE d[q]]

IdleRun ==
    [pc |-> "idle", inst |-> 0, test_vcf |-> "", out_dir |-> "",
     tr |-> NotCalled, te |-> NotCalled, launched |-> 0,
     outcome |-> NotLaunched.outcome, result |-> NotCalled]

\* except Exception as e, in run
failed_run(rec, e) == [rec EXCEPT !.pc = "done", !.result = Raised(pipeline_failed(e))]

\* run up to the try block.
begin_run(i, test_vcf_path, out_dir, m, d) ==
    LET rec == [IdleRun EXCEPT !.inst = i, !.test_vcf = test_vcf_path,
                               !.out_dir = out_dir]
    IN  IF ReadFile(d, test_vcf_path).st = "missing"
        THEN [rec EXCEPT !.pc = "done",
                         !.result = Raised(file_not_found(test_vcf_path, "VCF"))]
        ELSE IF m # "ok"
        THEN [rec EXCEPT !.pc = "done", !.result = Raised(mkdir_error(m))]
        ELSE [rec EXCEPT !.pc = "parse_training"]

\* tr_samples, tr_genos = self._parse_vcf(self.training_vcf)
parse_training_step(rec, I, d) ==
    LET tr == parse_vcf(I.training_vcf, ReadFile(d, I.training_vcf))
    IN  IF tr.kind = "raise" THEN failed_run([rec EXCEPT !.tr = tr], tr.err)
        ELSE [rec EXCEPT !.tr = tr, !.pc = "parse_test"]

\* te_samples, te_genos = self._parse_vcf(test_vcf) and the two checks.
parse_test_step(rec, d) ==
    LET te == parse_vcf(rec.test_vcf, ReadFile(d, rec.test_vcf))
        got == [rec EXCEPT !.te = te]
    IN  IF te.kind = "raise" THEN failed_run(got, te.err)
        ELSE IF Len(te.value.samples) # 1
        THEN failed_run(got,
                 invalid_vcf(rec.test_vcf,
                     <<"should contain exactly one sample, found ",
                       IntToStr(Len(te.value.samples))>>))
        ELSE IF Len(te.value.genos[te.value.samples[1]])
                  # Len(rec.tr.value.genos[rec.tr.value.samples[1]])
        THEN failed_run(got,
                 genotype_mismatch(Len(te.value.genos[te.value.samples[1]]),
                                   Len(rec.tr.value.genos[rec.tr.value.samples[1]])))
        ELSE [got EXCEPT !.pc = "write_genotype"]

\* self._write_genotype_file(out_geno, te_name, te_gt, tr_samples, tr_genos)
write_genotype_step(rec, d) ==
    [run |-> [rec EXCEPT !.pc = "write_location"],
     opened |-> {merged_genotype_path(rec.out_dir)},
     disk |-> WriteFile(d, merged_genotype_path(rec.out_dir),
                  write_genotype_file(rec.te.value.samples[1],
                                      rec.te.value.genos[rec.te.value.samples[1]],
                                      rec.tr.value.samples, rec.tr.value.genos))]

\* self._write_location_file(out_loc, te_name): the training location file
\* is opened first, the output after it.
write_location_step(rec, I, d) ==
    LET loc == ReadFile(d, I.training_loc)
    IN  IF loc.st # "ok"
        THEN [run |-> failed_run(rec, file_parsing_error(OpenError(loc))),
              opened |-> {},
              disk |-> d]
        ELSE [run |-> [rec EXCEPT !.pc = "invoke"],
              opened |-> {merged_location_path(rec.out_dir)},
              disk |-> WriteFile(d, merged_location_path(rec.out_dir),
                           write_location_file(loc.lines, rec.te.value.samples[1]))]

\* self._run_scat(merged_geno, merged_loc, out_dir) and the end of run.  The
\* caller gets the error of _run_scat wrapped by message, which does not
\* hold the command.
launch_step(rec, I, outcome) ==
    LET r == run_scat(I.num_snps, outcome)
        ran == [rec EXCEPT !.launched = @ + 1, !.outcome = outcome]
    IN  IF r.kind = "raise" THEN failed_run(ran, r.err)
        ELSE [ran EXCEPT !.pc = "done",
                         !.result = [kind |-> "ok", value |-> rec.out_dir,
                                     err |-> NoError]]

\* The value of an expression computed once, as the element of a singleton.
Only(S) == CHOOSE x \in S : TRUE

\* run as one call, nothing else running: what it returns or raises, the
\* paths it opened for writing and the files it leaves.
RunAlone(I, i, test_vcf_path, out_dir, m, outcome, d) ==
    Only({Only({Only({Only({Only({
        [run |-> IF w4.run.pc = "invoke" THEN launch_step(w4.run, I, outcome)
                 ELSE w4.run,
         opened |-> w3.opened \cup w4.opened,
         disk |-> w4.disk] :
      w4 \in {IF w3.run.pc = "write_location"
              THEN write_location_step(w3.run, I, w3.disk)
              ELSE [run |-> w3.run, opened |-> {}, disk |-> w3.disk]}}) :
      w3 \in {IF r2.pc = "write_genotype" THEN write_genotype_step(r2, d)
              ELSE [run |-> r2, opened |-> {}, disk |-> d]}}) :
      r2 \in {IF r1.pc = "parse_test" THEN parse_test_step(r1, d) ELSE r1}}) :
      r1 \in {IF r0.pc = "parse_training" THEN parse_training_step(r0, I, d) ELSE r0}}) :
      r0 \in {begin_run(i, test_vcf_path, out_dir, m, d)}})

\* The inputs of the concurrent runs.
TestPaths == {"uploads/a.vcf", "uploads/b.vcf"}
OutDirs == {"results/1", ReferenceDir}
LaunchOutcomes == {o \in ProcOutcomes : o.stdout = "" /\ o.stderr = ""}

Placeholder == [st |-> "ok", lines |-> <<>>]

\* The files before any run: the reference files of both instances (which
\* share the location file, the grid file and the executable) and the
\* uploads.
InitialDisks ==
    {[q \in ReferencePaths(Instance(2)) \cup ReferencePaths(Instance(84)) \cup TestPaths |->
        CASE q = PathOf("Training VCF", 2) ->
                VcfFile("ok", <<"A", "B">>, <<"full", "full">>)
          [] q = PathOf("Training VCF", 84) ->
                VcfFile("ok", <<"C", "D">>, <<"full", "full">>)
          [] q = PathOf("Training locations", 2) -> loc
          [] q = "uploads/a.vcf" -> VcfFile("ok", <<"X">>, <<"full", "full">>)
          [] q = "uploads/b.vcf" -> b
          [] OTHER -> Placeholder] :
        loc \in {[st |-> "ok", lines |-> <<LocRow(2), <<>>, LocRow(1)>>],
                 UnreadableFile},
        b \in {VcfFile("ok", <<"Y">>, <<"full", "full">>), MissingFile}}

InitRuns ==
    /\ GtIdle /\ VcfIdle /\ PipeIdle /\ CrIdle /\ ApiIdle
    /\ inst = <<Instance(2), Instance(84)>>
    /\ disk \in InitialDisks
    /\ runs = [r \in RunIds |-> IdleRun]
    /\ writes = {}

\* A caller calls run; no other call in progress has the same output
\* directory.
run_begin(r) ==
    /\ runs[r].pc = "idle"
    /\ \E i \in DOMAIN inst, t \in TestPaths, o \in OutDirs, m \in MkdirOutcomes :
          /\ \A q \in RunIds \ {r} : runs[q].pc = "idle" \/ runs[q].out_dir # o
          /\ runs' = [runs EXCEPT ![r] = begin_run(i, t, o, m, disk)]
    /\ UNCHANGED <<gtVars, vcfVars, pipeVars, crVars, apiVars, inst, disk, writes>>

run_parse_training(r) ==
    /\ runs[r].pc = "parse_training"
    /\ runs' = [runs EXCEPT ![r] = parse_training_step(@, inst[@.inst], disk)]
    /\ UNCHANGED <<gtVars, vcfVars, pipeVars, crVars, apiVars, inst, disk, writes>>

run_parse_test(r) ==
    /\ runs[r].pc = "parse_test"
    /\ runs' = [runs EXCEPT ![r] = parse_test_step(@, disk)]
    /\ UNCHANGED <<gtVars, vcfVars, pipeVars, crVars, apiVars, inst, disk, writes>>

run_write_genotype(r) ==
    /\ runs[r].pc = "write_genotype"
    /\ LET w == write_genotype_step(runs[r], disk)
       IN  /\ runs' = [runs EXCEPT ![r] = w.run]
           /\ disk' = w.disk
           /\ writes' = writes \cup w.opened
    /\ UNCHANGED <<gtVars, vcfVars, pipeVars, crVars, apiVars, inst>>

run_write_location(r) ==
    /\ runs[r].pc = "write_location"
    /\ LET w == write_location_step(runs[r], inst[runs[r].inst], disk)
       IN  /\ runs' = [runs EXCEPT ![r] = w.run]
           /\ disk' = w.disk
           /\ writes' = writes \cup w.opened
    /\ UNCHANGED <<gtVars, vcfVars, pipeVars, crVars, apiVars, inst>>

run_launch(r) ==
    /\ runs[r].pc = "invoke"
    /\ \E outcome \in LaunchOutcomes :
          runs' = [runs EXCEPT ![r] = launch_step(@, inst[@.inst], outcome)]
    /\ UNCHANGED <<gtVars, vcfVars, pipeVars, crVars, apiVars, inst, disk, writes>>

\* The caller has the outcome of its call.
run_end(r) ==
    /\ runs[r].pc = "done"
    /\ runs' = [runs EXCEPT ![r] = IdleRun]
    /\ UNCHANGED <<gtVars, vcfVars, pipeVars, crVars, apiVars, inst, disk, writes>>

NextRuns ==
    \E r \in RunIds :
        \/ run_begin(r)
        \/ run_parse_training(r)
        \/ run_parse_test(r)
        \/ run_write_genotype(r)
        \/ run_write_location(r)
        \/ run_launch(r)
        \/ run_end(r)

SpecRuns == InitRuns /\ [][NextRuns]_vars

(***************************************************************************)
(* geoassign/utils/credible_region.py                                      *)
(*                                                                         *)
(* A line of the posterior-sample file is the sequence of its              *)
(* whitespace-separated tokens, a token a sequence of characters.  A       *)
(* coordinate is kept in tenths of a degree, a confidence in hundredths.   *)
(***************************************************************************)
ValueError(msg) == [kind |-> "ValueError", message |-> <<msg>>]
FileNotFoundError(msg) == [kind |-> "FileNotFoundError", message |-> <<msg>>]
LinAlgError(msg) == [kind |-> "LinAlgError", message |-> <<msg>>]

\* The names float() accepts besides decimal numbers.
SpecialFloats == {<<"n", "a", "n">>, <<"i", "n", "f">>}

\* float(s) succeeds: an optional sign, then nan or inf, or digits with at
\* most one point and at least one digit.  (The tokens of the model's files
\* have no exponent, no underscore and no upper-case letter.)
IsFloatLiteral(s) ==
    LET u == Unsigned(s)
    IN  \/ u \in SpecialFloats
        \/ /\ \A i \in DOMAIN u : u[i] \in Range(DecDigits) \cup {"."}
           /\ Cardinality({i \in DOMAIN u : u[i] = "."}) <= 1
           /\ \E i \in DOMAIN u : u[i] \in Range(DecDigits)

\* float(s), in tenths, of a literal with at most one digit after the point.
FloatOf(s) ==
    LET u == Unsigned(s)
        parts == Split(u, ".")
        frac == IF Len(parts) = 2 /\ parts[2] # <<>> THEN DigitVal(parts[2][1]) ELSE 0
        mag == 10 * NatOf(parts[1]) + frac
    IN  IF u \in SpecialFloats THEN [fin |-> FALSE, tenths |-> 0]
        ELSE [fin |-> TRUE, tenths |-> IF s[1] = "-" THEN -mag ELSE mag]

\* The body of the loop over lines[:-1]: the samples appended, in order.
RECURSIVE scan_sample_lines(_)
scan_sample_lines(lines) ==
    IF lines = <<>> THEN <<>>
    ELSE LET values == Head(lines)
         IN  (IF /\ values # <<>>
                 /\ Len(values) >= 2
                 /\ IsFloatLiteral(values[1])
                 /\ IsFloatLiteral(values[2])
              THEN << <<FloatOf(values[1]), FloatOf(values[2])>> >>
              ELSE <<>>)
             \o scan_sample_lines(Tail(lines))

\* read_scat_samples with the last line read like the others.
read_scat_samples_all_lines(file) ==
    IF file.st = "missing"
    THEN Raised(FileNotFoundError("SCAT output file not found"))
    ELSE IF scan_sample_lines(file.lines) = <<>>
    THEN Raised(ValueError("No valid samples found in file"))
    ELSE Returned(scan_sample_lines(file.lines))

read_scat_samples(file) ==
    IF file.st = "missing"
    THEN Raised(FileNotFoundError("SCAT output file not found"))
    ELSE LET samples == scan_sample_lines(SubSeq(file.lines, 1, Len(file.lines) - 1))
         IN  IF samples = <<>>
             THEN Raised(ValueError("No valid samples found in file"))
             ELSE Returned(samples)

n_points == 100

RECURSIVE SumOver(_, _, _)
SumOver(samples, a, b) ==
    IF samples = <<>> THEN 0
    ELSE Head(samples)[a].tenths * (IF b = 0 THEN 1 ELSE Head(samples)[b].tenths)
         + SumOver(Tail(samples), a, b)

\* np.linalg.det(np.cov(samples.T)) < 1e-10, in exact arithmetic: with n
\* samples in tenths, the determinant is
\* (A*B - C*C) / (n*n*(n-1)*(n-1)) * 1e-4, where A, B and C are n times the
\* sums of squares and products less the products of the sums.
Degenerate(samples) ==
    LET n == Len(samples)
        A == n * SumOver(samples, 1, 1) - SumOver(samples, 1, 0) * SumOver(samples, 1, 0)
        B == n * SumOver(samples, 2, 2) - SumOver(samples, 2, 0) * SumOver(samples, 2, 0)
        C == n * SumOver(samples, 1, 2) - SumOver(samples, 1, 0) * SumOver(samples, 2, 0)
        limit == n * n * (n - 1) * (n - 1)
    IN  A * B - C * C < (limit + 999999) \div 1000000

AllFinite(samples) ==
    \A k \in DOMAIN samples : samples[k][1].fin /\ samples[k][2].fin

\* radius = 0.01, in hundredths of a degree.
radius == 1

\* np.linspace(0, 2 * np.pi, num) without its end point: num angles, the
\* k-th being k - 1 parts of a full turn divided into num.
linspace_endpoint_excluded(num) == [turn |-> num, parts |-> [k \in 1..num |-> k - 1]]

\* np.linspace(0, 2 * np.pi, num): num angles, the k-th being k - 1 parts
\* of a full turn divided into num - 1, so that the last is the full turn.
linspace(num) == [turn |-> num - 1, parts |-> [k \in 1..num |-> k - 1]]

\* (cos(theta), sin(theta)): the point of the unit circle at an angle, which
\* is the same point a full turn later.
UnitCircle(part, turn) == part % turn

\* The branch of compute_credible_region_polygon that makes the polygon.  A
\* covariance of nan is not below the threshold.
Branch(samples) ==
    IF ~AllFinite(samples) THEN "nan"
    ELSE IF Degenerate(samples) THEN "degenerate" ELSE "ellipse"

\* mean + radius * (cos, sin) in the degenerate branch, and
\* mean + (width / 2 * cos, height / 2 * sin) @ vecs.T in the other: a
\* vertex is the point of the unit circle it is the image of, and the map.
\* The circle's map is its radius; the ellipse's axes are left unnamed.
Vertex(branch, theta, k) ==
    [angle |-> theta.parts[k],
     turn |-> theta.turn,
     on_circle |-> UnitCircle(theta.parts[k], theta.turn),
     map |-> IF branch = "degenerate" THEN [kind |-> "circle", radius |-> radius]
             ELSE [kind |-> branch, radius |-> 0]]

\* The polygon: the branch that made it and its vertices, in the order of
\* latitudes and longitudes.
Polygon(samples) ==
    LET theta == linspace(n_points)
    IN  [branch |-> Branch(samples),
         vertices |-> [k \in DOMAIN theta.parts |-> Vertex(Branch(samples), theta, k)]]

\* compute_credible_region_polygon accepting the confidences 0 and 1.
compute_credible_region_polygon_closed(samples, confidence) ==
    IF \E k \in DOMAIN samples : Len(samples[k]) # 2
    THEN {Raised(ValueError("Expected 2D samples"))}
    ELSE IF ~(0 <= confidence /\ confidence <= 100)
    THEN {Raised(ValueError("Confidence must be between 0 and 1"))}
    ELSE IF Len(samples) < 3
    THEN {Raised(ValueError("Need at least 3 samples"))}
    ELSE IF ~AllFinite(samples)
    THEN {Raised(LinAlgError("Eigenvalues did not converge")), Returned(Polygon(samples))}
    ELSE {Returned(Polygon(samples))}

\* The outcomes of compute_credible_region_polygon.  On samples that are not
\* all finite the covariance is nan, no comparison with it holds, and the
\* eigen-decomposition either raises or gives a polygon of nan, by the build
\* of the library.
compute_credible_region_polygon(samples, confidence) ==
    IF \E k \in DOMAIN samples : Len(samples[k]) # 2
    THEN {Raised(ValueError("Expected 2D samples"))}
    ELSE IF ~(0 < confidence /\ confidence < 100)
    THEN {Raised(ValueError("Confidence must be between 0 and 1"))}
    ELSE IF Len(samples) < 3
    THEN {Raised(ValueError("Need at least 3 samples"))}
    ELSE IF ~AllFinite(samples)
    THEN {Raised(LinAlgError("Eigenvalues did not converge")), Returned(Polygon(samples))}
    ELSE {Returned(Polygon(samples))}

\* The outcomes of compute_credible_region_from_file, given what
\* read_scat_samples gave.
compute_credible_region_from_file(read, confidence) ==
    IF read.kind = "raise" THEN {read}
    ELSE {IF r.kind = "raise" THEN r
          ELSE Returned([polygon |-> r.value,
                         center |-> [lat |-> SumOver(read.value, 1, 0),
                                     lng |-> SumOver(read.value, 2, 0),
                                     over |-> Len(read.value)],
                         confidence |-> confidence,
                         n_samples |-> Len(read.value)]) :
             r \in compute_credible_region_polygon(read.value, confidence)}

\* The coordinates of the model's files.
LatTokens == << <<"1", ".", "5">>, <<"-", "2">>, <<"0", ".", "5">>, <<"1", ".", "5">> >>
LngTokens == << <<"-", "2">>, <<"2">>, <<".", "5">>, <<"-", "2">> >>

\* The shapes of a line: latitude and longitude (with a third column on
\* even lines), a header, a single scalar (the acceptance rate), an empty
\* line, a number followed by a word, a line whose latitude is nan, and
\* the same latitude and longitude whatever the line.
SampleLineShapes == {"pair", "fixed", "header", "scalar", "blank", "half", "nan"}

sample_line(shape, j) ==
    CASE shape = "pair" ->
           <<LatTokens[((j - 1) % Len(LatTokens)) + 1],
             LngTokens[((j - 1) % Len(LngTokens)) + 1]>>
           \o (IF j % 2 = 0 THEN << <<"7">> >> ELSE <<>>)
      [] shape = "fixed" -> <<LatTokens[1], LngTokens[1]>>
      [] shape = "header" -> << <<"l", "a", "t">>, <<"l", "n", "g">> >>
      [] shape = "scalar" -> << <<"0", ".", "4">> >>
      [] shape = "half" -> << <<"2">>, <<"l", "n", "g">> >>
      [] shape = "nan" -> << <<"n", "a", "n">>, <<"1">> >>
      [] OTHER -> <<>>

SampleFiles ==
    {[st |-> "ok", lines |-> [j \in 1..Len(shapes) |-> sample_line(shapes[j], j)]] :
        shapes \in SeqsUpTo(SampleLineShapes, MaxSampleLines)}
    \cup {MissingFile}

\* 0.9 is the default.
Confidences == {0, 90, 100, 150}

InitCR ==
    /\ GtIdle /\ VcfIdle /\ PipeIdle /\ RunsIdle /\ ApiIdle
    /\ cr_file \in SampleFiles
    /\ cr_conf \in Confidences
    /\ cr_samples = NotCalled
    /\ cr_out = NotCalled

\* compute_credible_region_from_file(file_path, confidence)
credible_region_call ==
    /\ cr_out = NotCalled
    /\ cr_samples' = read_scat_samples(cr_file)
    /\ cr_out' \in compute_credible_region_from_file(read_scat_samples(cr_file), cr_conf)
    /\ UNCHANGED <<cr_file, cr_conf, gtVars, vcfVars, pipeVars, runsVars, apiVars>>

NextCR == credible_region_call

SpecCR == InitCR /\ [][NextCR]_vars

(***************************************************************************)
(* geoassign/api/views.py: test_pipeline                                   *)
(*                                                                         *)
(* A request parameter is a sequence of characters, empty when the         *)
(* request does not carry it.  A path is kept with its components, so that *)
(* it can be resolved from a working directory.                            *)
(***************************************************************************)
\* A pathlib.Path: absolute or relative, and its components.
Path(abs, parts) == [abs |-> abs, parts |-> parts]

\* str(path)
RECURSIVE JoinSlash(_)
JoinSlash(parts) ==
    IF parts = <<>> THEN ""
    ELSE IF Len(parts) = 1 THEN Head(parts)
    ELSE Head(parts) \o "/" \o JoinSlash(Tail(parts))

PathStr(path) == (IF path.abs THEN "/" ELSE "") \o JoinSlash(path.parts)

\* path / name
Join(path, name) == [path EXCEPT !.parts = Append(@, name)]

\* The file a path names for a process whose working directory is cwd.
ResolveFrom(cwd, path) ==
    IF path.abs THEN path ELSE Path(cwd.abs, cwd.parts \o path.parts)

\* settings.BASE_DIR, which is also the working directory of the server.
BASE_DIR == Path(TRUE, <<"srv", "app">>)

\* The merged files the converter opens for writing in the server process:
\* out_dir / "merged_genotype.txt" and out_dir / "merged_location.txt".
merged_files(out_dir) ==
    [geno_file |-> ResolveFrom(BASE_DIR, Join(out_dir, "merged_genotype.txt")),
     loc_file |-> ResolveFrom(BASE_DIR, Join(out_dir, "merged_location.txt"))]

\* The paths _run_scat hands to subprocess.run for the output directory run
\* was given: str(geno_file), str(loc_file), str(output_dir) in the command,
\* and cwd=output_dir.
scat_paths(out_dir) ==
    [geno_file |-> Join(out_dir, "merged_genotype.txt"),
     loc_file |-> Join(out_dir, "merged_location.txt"),
     output_dir |-> out_dir,
     cwd |-> out_dir]

NoPaths == [geno_file |-> Path(FALSE, <<>>), loc_file |-> Path(FALSE, <<>>),
            output_dir |-> Path(FALSE, <<>>), cwd |-> Path(FALSE, <<>>)]

\* The files the launched process opens for its genotype-file and
\* location-file arguments: the process starts in cwd, itself resolved from
\* the working directory of the server.
opened_by_process(paths) ==
    LET cwd == ResolveFrom(BASE_DIR, paths.cwd)
    IN  [geno_file |-> ResolveFrom(cwd, paths.geno_file),
         loc_file |-> ResolveFrom(cwd, paths.loc_file)]

\* rest_framework Response(data, status=...): a status and, for an error,
\* the text under "error".
Response(status, error) == [kind |-> "response", status |-> status, error |-> error]

HTTP_200_OK == 200
HTTP_400_BAD_REQUEST == 400
HTTP_404_NOT_FOUND == 404
HTTP_500_INTERNAL_SERVER_ERROR == 500

\* a or b or c, on request parameters
Or(a, b) == IF a # <<>> THEN a ELSE b

\* The names of required_files whose path exists on the disk.
ExistingOn(d, n) ==
    {name \in Range(RequiredFiles) : ReadFile(d, PathOf(name, n)).st # "missing"}

\* The except clauses of the view.
tp_except(e) ==
    IF e.kind = "SCATPipelineError"
    THEN Response(HTTP_400_BAD_REQUEST, <<"Test pipeline error: ">> \o Str(e))
    ELSE Response(HTTP_500_INTERNAL_SERVER_ERROR, <<"Test failed: ">> \o Str(e))

sample_vcf == PathStr(Join(Join(BASE_DIR, "data"), "jaguar.57samples.84snps.vcf"))

test_results == Path(FALSE, <<"test_results">>)

TpOutcome(response, launched, d) ==
    [response |-> response,
     paths |-> IF launched THEN scat_paths(test_results) ELSE NoPaths,
     written |-> merged_files(test_results),
     launched |-> launched,
     disk |-> d]

\* test_pipeline(request): the response, the launch of the process and the
\* files left behind.
test_pipeline(req, m, outcome, d) ==
    LET raw == Or(req.data, req.query)
    IN  IF raw # <<>> /\ ~IsIntLiteral(raw)
        THEN TpOutcome(Response(HTTP_400_BAD_REQUEST, <<"num_snps must be a valid integer">>),
                       FALSE, d)
        ELSE IF ReadFile(d, sample_vcf).st = "missing"
        THEN TpOutcome(Response(HTTP_404_NOT_FOUND, <<"Sample VCF file not found">>),
                       FALSE, d)
        ELSE LET num == IF raw = <<>> THEN 84 ELSE IntOf(raw)
                 v == validate_reference_files(ExistingOn(d, num), num)
             IN  IF v.kind = "raise" THEN TpOutcome(tp_except(v.err), FALSE, d)
                 ELSE Only({
                     IF c.run.result.kind = "raise"
                     THEN TpOutcome(tp_except(c.run.result.err), c.run.launched > 0,
                                    c.disk)
                     ELSE TpOutcome(Response(HTTP_200_OK, <<>>), TRUE, c.disk) :
                   c \in {RunAlone(Instance(num), 1, sample_vcf,
                                   PathStr(test_results), m, outcome, d)}})

\* The requests: num_snps in the body, in the query string, in neither.
NumSnpsParams == {<<>>, <<"2">>, <<"x">>}
TpRequests == [data : NumSnpsParams, query : NumSnpsParams]

\* The files the view may find: any of the reference files of the two panels
\* may be missing; the sample file holds one specimen or two, or is missing.
TpReferencePaths == ReferencePaths(Instance(2)) \cup ReferencePaths(Instance(84))

TpDisks ==
    {[q \in present \cup {sample_vcf} |->
        CASE q = sample_vcf -> sample
          [] q = PathOf("Training VCF", 2) ->
                VcfFile("ok", <<"A", "B">>, [j \in 1..MaxLoci |-> "full"])
          [] q = PathOf("Training VCF", 84) ->
                VcfFile("ok", <<"C", "D">>, [j \in 1..MaxLoci |-> "full"])
          [] q = PathOf("Training locations", 2) ->
                [st |-> "ok", lines |-> <<LocRow(1), LocRow(2), LocRow(3), LocRow(4)>>]
          [] OTHER -> Placeholder] :
        present \in SUBSET TpReferencePaths,
        sample \in {VcfFile("ok", <<"X">>, [j \in 1..MaxLoci |-> "full"]),
                    VcfFile("ok", <<"X", "Y">>, [j \in 1..MaxLoci |-> "full"]),
                    MissingFile}}

InitTP ==
    /\ GtIdle /\ VcfIdle /\ PipeIdle /\ CrIdle
    /\ inst = <<>> /\ runs = <<>> /\ writes = {}
    /\ disk \in TpDisks
    /\ tp = NotCalled
    /\ posts = <<>>

\* POST /test-pipeline/
test_pipeline_call ==
    /\ tp = NotCalled
    /\ \E req \in TpRequests, m \in MkdirOutcomes, outcome \in LaunchOutcomes :
          \E t \in {test_pipeline(req, m, outcome, disk)} :
              /\ tp' = [kind |-> "called", request |-> req, response |-> t.response,
                        launched |-> t.launched, paths |-> t.paths,
                        written |-> t.written]
              /\ disk' = t.disk
    /\ UNCHANGED <<gtVars, vcfVars, pipeVars, crVars, inst, runs, writes, posts>>

NextTP == test_pipeline_call

SpecTP == InitTP /\ [][NextTP]_vars

(***************************************************************************)
(* geoassign/api/views.py: GeographicAssignmentView.post                   *)
(*                                                                         *)
(* Two requests are handled at the same time by two workers of the server. *)
(* A step of a request ends with one access to the files the requests      *)
(* share; pipeline.run is one step, its own interleavings being those of   *)
(* the concurrent runs above.                                              *)
(***************************************************************************)
PostIds == 1..2

\* uploaded_file.name.endswith(".vcf"), on a name kept as stem and suffix.
EndsWithVcf(name) == name[Len(name)] = ".vcf"

NameStr(name) == name[1] \o name[2]

\* vcf_path = Path(settings.BASE_DIR) / "data" / "temp_upload.vcf"
vcf_path == PathStr(Join(Join(BASE_DIR, "data"), "temp_upload.vcf"))

\* The contents a client uploads.
Uploads ==
    <<VcfFile("ok", <<"X">>, [j \in 1..MaxLoci |-> "full"]),
      VcfFile("ok", <<"Y">>, [j \in 1..MaxLoci |-> "full"])>>

\* hashlib.md5 over the content read and hexdigest(): one digest for each
\* content.
hexdigest(file) ==
    "md5" \o IntToStr(CHOOSE k \in DOMAIN Uploads : Uploads[k] = file)

\* species_inference_dir / f"inference_{file_hash}"
inference_dir(user_email, file_hash) ==
    Join(Join(Join(Join(Join(Join(BASE_DIR, "data"), "inference"), "panthera-onca"),
                   "inference"), user_email),
         "inference_" \o file_hash)

\* final_vcf_path = inference_dir / uploaded_file.name
final_vcf_path(p) ==
    Join(inference_dir(p.request.user_email, p.file_hash), NameStr(p.request.name))

\* os.replace(src, dst): the content moves, the source name is gone.
MoveFile(d, src, dst) ==
    [q \in ((DOMAIN d) \ {src}) \cup {dst} |-> IF q = dst THEN d[src] ELSE d[q]]

NoContent == [st |-> "none", lines |-> <<>>]
NoResponse == [kind |-> "none", status |-> 0, error |-> <<>>]

\* The locals of a call of post before its first statement.
PostLocals(req) ==
    [pc |-> "received", request |-> req, num_snps |-> 0, file_hash |-> "",
     hashed |-> NoContent, moved |-> NoContent, analysed |-> NoContent,
     launched |-> FALSE, paths |-> NoPaths, written |-> NoPaths,
     response |-> NoResponse]

Respond(p, response) == [p EXCEPT !.pc = "done", !.response = response]

\* The except clauses of post.
post_except(e) ==
    IF e.kind = "SCATPipelineError"
    THEN Response(HTTP_400_BAD_REQUEST, <<"Pipeline error: ">> \o Str(e))
    ELSE Response(HTTP_500_INTERNAL_SERVER_ERROR, <<"Processing failed: ">> \o Str(e))

\* open(vcf_path, "rb") or vcf_path.replace(...) when the file is gone.
temp_file_gone ==
    FileNotFoundError("[Errno 2] No such file or directory: " \o vcf_path)

\* post up to the end of `with open(vcf_path, "wb+")`: the checks of the
\* request, then the upload saved under the name every request uses.
post_save(p, d) ==
    LET req == p.request
    IN  IF ~req.has_file
        THEN [post |-> Respond(p, Response(HTTP_400_BAD_REQUEST, <<"No file provided">>)),
              disk |-> d]
        ELSE IF ~EndsWithVcf(req.name)
        THEN [post |-> Respond(p, Response(HTTP_400_BAD_REQUEST,
                                           <<"File must be a VCF file">>)),
              disk |-> d]
        ELSE IF req.num_snps # <<>> /\ ~IsIntLiteral(req.num_snps)
        THEN [post |-> Respond(p, Response(HTTP_400_BAD_REQUEST,
                                           <<"num_snps must be a valid integer">>)),
              disk |-> d]
        ELSE IF req.user_email = ""
        THEN [post |-> Respond(p, Response(HTTP_400_BAD_REQUEST,
                                           <<"User email is required.">>)),
              disk |-> d]
        ELSE [post |-> [p EXCEPT !.pc = "hash",
                                 !.num_snps = IF req.num_snps = <<>> THEN 84
                                              ELSE IntOf(req.num_snps)],
              disk |-> WriteFile(d, vcf_path, req.content.lines)]

\* The hash of the file read back from vcf_path, and the inference
\* directory made for it (mkdir with exist_ok=True).
post_hash(p, d) ==
    LET f == ReadFile(d, vcf_path)
    IN  IF f.st = "missing" THEN Respond(p, post_except(temp_file_gone))
        ELSE [p EXCEPT !.pc = "move", !.hashed = f, !.file_hash = hexdigest(f)]

\* vcf_path.replace(final_vcf_path)
post_move(p, d) ==
    LET f == ReadFile(d, vcf_path)
    IN  IF f.st = "missing"
        THEN [post |-> Respond(p, post_except(temp_file_gone)), disk |-> d]
        ELSE [post |-> [p EXCEPT !.pc = "run", !.moved = f],
              disk |-> MoveFile(d, vcf_path, PathStr(final_vcf_path(p)))]

\* The rest of post: the pipeline constructed and run on final_vcf_path with
\* inference_dir / "results" as output directory, and the response.  (What
\* follows a successful run, the list of result files, the credible region
\* and the copy to the seafile directory, fails without changing the
\* response.)
post_run(p, i, outcome, d) ==
    LET final == final_vcf_path(p)
        results == Join(inference_dir(p.request.user_email, p.file_hash), "results")
        v == validate_reference_files(ExistingOn(d, p.num_snps), p.num_snps)
    IN  IF v.kind = "raise"
        THEN [post |-> Respond(p, post_except(v.err)), disk |-> d]
        ELSE Only({
            [post |-> Respond([p EXCEPT
                                 !.analysed = IF c.run.te = NotCalled THEN NoContent
                                              ELSE ReadFile(d, PathStr(final)),
                                 !.launched = c.run.launched > 0,
                                 !.paths = IF c.run.launched > 0 THEN scat_paths(results)
                                           ELSE NoPaths,
                                 !.written = IF c.opened = {} THEN NoPaths
                                             ELSE merged_files(results) @@ NoPaths],
                              IF c.run.result.kind = "raise"
                              THEN post_except(c.run.result.err)
                              ELSE Response(HTTP_200_OK, <<>>)),
             disk |-> c.disk] :
          c \in {RunAlone(Instance(p.num_snps), i, PathStr(final), PathStr(results),
                          "ok", outcome, d)}})

\* The requests: with or without file, a name with or without the suffix,
\* num_snps well or ill formed, with or without user_email.
PostRequests ==
    {[has_file |-> h, name |-> <<"a", suffix>>, content |-> Uploads[u],
      num_snps |-> n, user_email |-> e] :
        h \in BOOLEAN, suffix \in {".vcf", ".txt"}, u \in DOMAIN Uploads,
        n \in {<<"2">>, <<"x">>}, e \in {"", "u@x"}}

\* The files before the requests: the reference files, one of them possibly
\* missing.
PostDisks ==
    {[q \in TpReferencePaths \ gone |->
        CASE q = PathOf("Training VCF", 2) ->
                VcfFile("ok", <<"A", "B">>, [j \in 1..MaxLoci |-> "full"])
          [] q = PathOf("Training locations", 2) ->
                [st |-> "ok", lines |-> <<LocRow(1), LocRow(2)>>]
          [] OTHER -> Placeholder] :
        gone \in {{}, {PathOf("Grid file", 2)}}}

InitPost ==
    /\ GtIdle /\ VcfIdle /\ PipeIdle /\ CrIdle
    /\ inst = <<>> /\ runs = <<>> /\ writes = {}
    /\ tp = NotCalled
    /\ disk \in PostDisks
    /\ \E reqs \in [PostIds -> PostRequests] :
          posts = [i \in PostIds |-> PostLocals(reqs[i])]

PostUnchanged == UNCHANGED <<gtVars, vcfVars, pipeVars, crVars, inst, runs, writes, tp>>

post_save_step(i) ==
    /\ posts[i].pc = "received"
    /\ \E r \in {post_save(posts[i], disk)} :
          /\ posts' = [posts EXCEPT ![i] = r.post]
          /\ disk' = r.disk
    /\ PostUnchanged

post_hash_step(i) ==
    /\ posts[i].pc = "hash"
    /\ posts' = [posts EXCEPT ![i] = post_hash(@, disk)]
    /\ UNCHANGED disk
    /\ PostUnchanged

post_move_step(i) ==
    /\ posts[i].pc = "move"
    /\ \E r \in {post_move(posts[i], disk)} :
          /\ posts' = [posts EXCEPT ![i] = r.post]
          /\ disk' = r.disk
    /\ PostUnchanged

post_run_step(i) ==
    /\ posts[i].pc = "run"
    /\ \E outcome \in LaunchOutcomes :
          \E r \in {post_run(posts[i], i, outcome, disk)} :
              /\ posts' = [posts EXCEPT ![i] = r.post]
              /\ disk' = r.disk
    /\ PostUnchanged

NextPost ==
    \E i \in PostIds :
        \/ post_save_step(i)
        \/ post_hash_step(i)
        \/ post_move_step(i)
        \/ post_run_step(i)

SpecPost == InitPost /\ [][NextPost]_vars

(***************************************************************************)
(* The claims                                                              *)
(***************************************************************************)
InText(piece, text) == piece \in Range(text)

RunDone == pc = "done"
ConversionFailed == RunDone /\ conv_err # NoError

\* C1: every failure of run caused by a parsing or conversion failure
\* reaches the caller of run with the specific code of that cause, not with
\* the unknown code.  (Stated as the claim has it; the except clause of run
\* refutes it.)
C1_ConversionFailureKeepsItsCode ==
    ConversionFailed =>
        /\ run_result.kind = "raise"
        /\ run_result.err.error_code = conv_err.error_code
        /\ run_result.err.error_code # ERROR_CODES.UNKNOWN

ProcessExitedNonZero ==
    /\ RunDone
    /\ proc.launched > 0
    /\ proc.outcome.kind = "exit"
    /\ proc.outcome.returncode # 0

\* C2: when the external process exits with a non-zero code, the failure
\* raised for the run has the external-process-failure code and its detail
\* contains the command line, the exit code and the captured standard output
\* and standard error.  (Stated as the claim has it; the except clause of
\* run refutes it.)
C2_ProcessFailureReachesCaller ==
    ProcessExitedNonZero =>
        /\ run_result.kind = "raise"
        /\ run_result.err.error_code = ERROR_CODES.SCAT_EXECUTION
        /\ InText(JoinSpace(proc.cmd), run_result.err.details)
        /\ InText(IntToStr(proc.outcome.returncode), run_result.err.details)
        /\ proc.outcome.stdout # "" => InText(proc.outcome.stdout, run_result.err.details)
        /\ proc.outcome.stderr # "" => InText(proc.outcome.stderr, run_result.err.details)

\* The test file holds exactly one specimen, both files parsed, and the
\* specimen's locus count differs from the reference panel's (the count of
\* the panel's first sample, as the converter takes it).
TestLoci == Len(parsed.te.value.genos[parsed.te.value.samples[1]])
ReferenceLoci == Len(parsed.tr.value.genos[parsed.tr.value.samples[1]])

BothParsedOneSpecimen ==
    /\ parsed.tr.kind = "ok"
    /\ parsed.te.kind = "ok"
    /\ Len(parsed.te.value.samples) = 1

LocusCountMismatch == BothParsedOneSpecimen /\ TestLoci # ReferenceLoci

Decoded == alleles # <<>>

\* C4: every genotype call the parser produces is a pair whose two allele
\* codes are either both positive integers or both -9; never a mix, never 0,
\* never a negative value other than -9.  (Stated as the claim has it.)
C4_BothRealOrBothMissing ==
    Decoded =>
        /\ Len(alleles) = 2
        /\ \/ alleles[1] > 0 /\ alleles[2] > 0
           \/ alleles = <<-9, -9>>

\* The tokens of the form a/b or a|b with a and b in {0, 1}.
BiallelicTokens ==
    {<<a, sep, b>> : a \in {"0", "1"}, sep \in {"/", "|"}, b \in {"0", "1"}}

\* C5: every genotype token that is not of the form a/b or a|b with a and b
\* in {0, 1} decodes to (-9, -9).  (Stated as the claim has it.)
C5_OtherTokensDecodeToMissing ==
    (Decoded /\ gt \notin BiallelicTokens) => alleles = <<-9, -9>>

\* C6: '0/0' and '0|0' decode to (1,1), '1/1' and '1|1' to (2,2), '0/1' and
\* '0|1' to (1,2), '1/0' and '1|0' to (2,1): each allele index is mapped to
\* its code by adding 1, with '/' and '|' treated alike.
C6_BiallelicTokensDecode ==
    Decoded =>
        /\ gt \in {<<"0", "/", "0">>, <<"0", "|", "0">>} => alleles = <<1, 1>>
        /\ gt \in {<<"1", "/", "1">>, <<"1", "|", "1">>} => alleles = <<2, 2>>
        /\ gt \in {<<"0", "/", "1">>, <<"0", "|", "1">>} => alleles = <<1, 2>>
        /\ gt \in {<<"1", "/", "0">>, <<"1", "|", "0">>} => alleles = <<2, 1>>

\* '1|0' has been decoded to (2,1).
C6_Witness == gt = <<"1", "|", "0">> /\ alleles = <<2, 1>>

\* C7: after a genotype file is parsed successfully, every sample of the
\* returned mapping has the same number of genotype calls.  (Stated as the
\* claim has it.)
C7_SamplesHaveEqualLocusCounts ==
    vcf_out.kind = "ok" =>
        \A s, t \in DOMAIN vcf_out.value.genos :
            Len(vcf_out.value.genos[s]) = Len(vcf_out.value.genos[t])

\* The locals of a conversion that wrote the merged genotype file.
PanelSize == Len(parsed.tr.value.samples)
TestName == parsed.te.value.samples[1]
TestCalls == parsed.te.value.genos[TestName]
PanelCalls(i) == parsed.tr.value.genos[parsed.tr.value.samples[i]]

AlleleRow(name, loc_id, calls, h) ==
    <<name, loc_id>> \o [k \in 1..Len(calls) |-> IntToStr(calls[k][h])]

\* C8: for a reference panel of N samples and a test specimen with matching
\* locus count, the merged genotype file has exactly 2*(N+1) rows: the two
\* rows of the test specimen with location index -1 (first alleles, then
\* second alleles), then for the i-th reference sample in header order its
\* two rows with location index i.
C8_MergedGenotypeLayout ==
    merged_geno.written =>
        /\ Len(merged_geno.rows) = 2 * (PanelSize + 1)
        /\ merged_geno.rows[1] = AlleleRow(TestName, "-1", TestCalls, 1)
        /\ merged_geno.rows[2] = AlleleRow(TestName, "-1", TestCalls, 2)
        /\ \A i \in 1..PanelSize :
              /\ merged_geno.rows[2 * i + 1] =
                    AlleleRow(parsed.tr.value.samples[i], IntToStr(i), PanelCalls(i), 1)
              /\ merged_geno.rows[2 * i + 2] =
                    AlleleRow(parsed.tr.value.samples[i], IntToStr(i), PanelCalls(i), 2)

\* A conversion of a panel of 2 samples and a test specimen of 2 loci, one
\* of them heterozygous, has written the merged genotype file.
C8_Witness ==
    /\ merged_geno.written
    /\ PanelSize = 2
    /\ Len(TestCalls) = 2
    /\ \E k \in 1..2 : TestCalls[k][1] # TestCalls[k][2]
    /\ Len(merged_geno.rows) = 6

\* C9: for a reference panel of N samples and a test specimen with matching
\* locus count, the merged location file has exactly N rows, one per
\* reference specimen, and no row whose identifier is the test specimen's.
\* (Stated as the claim has it.)
C9_MergedLocationRows ==
    merged_loc.written =>
        /\ Len(merged_loc.rows) = PanelSize
        /\ \A i \in 1..PanelSize :
              Cardinality({k \in 1..Len(merged_loc.rows) :
                              merged_loc.rows[k][1] = parsed.tr.value.samples[i]}) = 1
        /\ \A k \in 1..Len(merged_loc.rows) : merged_loc.rows[k][1] # TestName

Constructed == pc # "uninit"
AllReferenceFilesExist == fs = Range(RequiredFiles)

\* C10: constructing a pipeline returns an instance if and only if the
\* training genotype file, the training location file, the grid file and
\* the executable all exist; when one is missing, construction raises an
\* error with the missing-files code and no instance is returned (no run
\* ever starts).
C10_ConstructionIffAllFilesExist ==
    Constructed =>
        /\ (pc # "failed") <=> AllReferenceFilesExist
        /\ pc # "failed" => ctor_err = NoError
        /\ pc = "failed" =>
              /\ ctor_err.kind = "SCATPipelineError"
              /\ ctor_err.error_code = ERROR_CODES.MISSING_FILES
              /\ run_result = NotCalled
              /\ proc.launched = 0

\* Construction failed with only the executable missing.
C10_Witness ==
    /\ pc = "failed"
    /\ fs = Range(RequiredFiles) \ {"SCAT executable"}
    /\ ctor_err.error_code = ERROR_CODES.MISSING_FILES

ProcessExitedZero ==
    /\ proc.launched > 0
    /\ proc.outcome.kind = "exit"
    /\ proc.outcome.returncode = 0

\* C11: within one run call the external process is launched at most once:
\* an invocation that failed (a non-zero exit, or a launch that raised) is
\* not retried and the run ends as a failure, and a run that returned has
\* launched the process exactly once.
C11_LaunchedAtMostOncePerRun ==
    /\ proc.launched <= 1
    /\ (proc.launched = 1 /\ ~ProcessExitedZero) =>
          /\ RunDone
          /\ run_result.kind = "raise"
    /\ run_result.kind = "ok" => proc.launched = 1

\* A run has ended as a failure after its one launch exited with code 1.
C11_Witness ==
    /\ RunDone
    /\ proc.launched = 1
    /\ proc.outcome.kind = "exit"
    /\ proc.outcome.returncode = 1
    /\ run_result.kind = "raise"

\* C12: in every run the external process is launched only after both
\* merged files have been written in full and the conversion has returned
\* without error; when the conversion fails the process is never launched;
\* and run returns the output directory only after the process exited with
\* code zero.
C12_LaunchOnlyAfterConversion ==
    /\ proc.launched > 0 =>
          /\ conv_err = NoError
          /\ merged_geno.written
          /\ merged_loc.written
          /\ Len(merged_geno.rows) = 2 * (PanelSize + 1)
          /\ Len(merged_loc.rows) =
                Cardinality({k \in DOMAIN training_loc.lines :
                                /\ training_loc.lines[k] # <<>>
                                /\ training_loc.lines[k][1] # TestName})
    /\ pc = "invoking" => (merged_geno.written /\ merged_loc.written)
    /\ conv_err # NoError => proc.launched = 0
    /\ run_result.kind = "ok" =>
          /\ ProcessExitedZero
          /\ run_result.value = OutDir

\* A run has returned the output directory: both merged files are written
\* and the process exited with code zero.
C12_Witness ==
    /\ RunDone
    /\ run_result.kind = "ok"
    /\ run_result.value = OutDir
    /\ merged_geno.written
    /\ merged_loc.written
    /\ ProcessExitedZero

\* The pieces of a message, concatenated.
RECURSIVE Concat(_)
Concat(pieces) == IF pieces = <<>> THEN "" ELSE Head(pieces) \o Concat(Tail(pieces))

MissingTestFile == RunDone /\ test_vcf.st = "missing"

\* C13: a run whose test genotype file does not exist raises an error with
\* the missing-files code E001 and the message 'Vcf not found', before any
\* conversion step (nothing parsed, no merged file written) and before any
\* process launch.
C13_MissingTestFileFailsFirst ==
    MissingTestFile =>
        /\ run_result.kind = "raise"
        /\ run_result.err.kind = "SCATPipelineError"
        /\ run_result.err.error_code = ERROR_CODES.MISSING_FILES
        /\ Concat(run_result.err.message) = "Vcf not found"
        /\ parsed = NotParsed
        /\ conv_err = NoError
        /\ ~merged_geno.written
        /\ ~merged_loc.written
        /\ proc.launched = 0

\* A run on a missing test file has raised E001.
C13_Witness ==
    /\ MissingTestFile
    /\ run_result.kind = "raise"
    /\ run_result.err.error_code = "E001"
    /\ run_result.err.file_path = TestVcfPath

LauncherRaised == RunDone /\ proc.launched = 1 /\ proc.outcome.kind = "oserror"

\* C14: any exception raised during a run that is not already a typed
\* pipeline error (the process launcher raising, the creation of the output
\* directory raising) reaches the caller as a pipeline error with the
\* unknown code E999, a message starting 'Pipeline execution failed', and
\* the original exception's message in the error's detail.  (Stated as the
\* claim has it.)
C14_UntypedExceptionsAreWrapped ==
    /\ (RunDone /\ run_result.kind = "raise") =>
          run_result.err.kind = "SCATPipelineError"
    /\ LauncherRaised =>
          /\ run_result.kind = "raise"
          /\ run_result.err.error_code = ERROR_CODES.UNKNOWN
          /\ run_result.err.message[1] = "Pipeline execution failed: "
          /\ InText("[Errno 8] Exec format error", run_result.err.details)

\* The codes of the taxonomy.
ClosedCodes == {"E001", "E002", "E003", "E004", "E005", "E006", "E007", "E999"}

\* C17: every error raised by the construction of a pipeline or by run is a
\* pipeline error carrying a code of the closed set E001..E007, E999; and an
\* error built without a code gets E999.  (Stated as the claim has it.)
C17_EveryErrorCarriesAClosedCode ==
    /\ pc = "failed" =>
          /\ ctor_err.kind = "SCATPipelineError"
          /\ ctor_err.error_code \in ClosedCodes
    /\ (RunDone /\ run_result.kind = "raise") =>
          /\ run_result.err.kind = "SCATPipelineError"
          /\ run_result.err.error_code \in ClosedCodes
    /\ SCATPipelineError(<<"x">>, NoStr, NoText, NoStr, NoText).error_code = "E999"

Launched == proc.launched > 0

\* C18: the command line passed to the external process is exactly:
\* executable, '-A', '1', '1', '-g', grid file (as an absolute path), merged
\* genotype file, merged location file, output directory, the locus count
\* given at construction, then iterations, thinning and burn-in, each 100 (no
\* invocation can give other values); the process runs in the output
\* directory.
C18_CommandLine ==
    Launched =>
        /\ Len(proc.cmd) = 13
        /\ proc.cmd[1] = "~/support_repos/scat/src/SCAT3"
        /\ SubSeq(proc.cmd, 2, 5) = <<"-A", "1", "1", "-g">>
        /\ proc.cmd[6] = "/srv/app/geoassign/reference/panthera_onca/panthera_onca_grid.txt"
        /\ proc.cmd[7] = "results/run/merged_genotype.txt"
        /\ proc.cmd[8] = "results/run/merged_location.txt"
        /\ proc.cmd[9] = "results/run"
        /\ proc.cmd[10] = IntToStr(num_snps)
        /\ SubSeq(proc.cmd, 11, 13) = <<"100", "100", "100">>
        /\ proc.cwd = "results/run"

\* The process has been launched by an instance built for 84 loci.
C18_Witness ==
    /\ Launched
    /\ num_snps = 84
    /\ proc.cmd[10] = "84"
    /\ proc.cmd[7] = MergedGenoPath

\* The reference files and the uploads: the files that exist before any run.
InputPaths == ReferencePaths(Instance(2)) \cup ReferencePaths(Instance(84)) \cup TestPaths
InputFiles == [q \in InputPaths |-> ReadFile(disk, q)]

SameOutcome(a, b) ==
    /\ a.result.kind = b.result.kind
    /\ a.result = b.result
    /\ a.launched = b.launched

AllReferencePaths == UNION {ReferencePaths(inst[i]) : i \in DOMAIN inst}

\* A finished run call has the outcome of the same call made alone on an
\* instance constructed anew from the same species and panel size.
AsOnFreshInstance(r) ==
    \E m \in MkdirOutcomes :
        SameOutcome(runs[r],
                    RunAlone(Instance(inst[runs[r].inst].num_snps), runs[r].inst,
                             runs[r].test_vcf, runs[r].out_dir, m, runs[r].outcome,
                             InputFiles).run)

\* C15: after any sequence of run calls, successful or failed, the
\* attributes of every instance (species, panel size, the paths of the
\* training genotype file, the training location file, the grid and the
\* executable) are unchanged, no reference file has been opened for writing
\* or changed, and every run call that ends has the outcome it would have on
\* a freshly constructed instance.
C15_ReferenceSetUntouched ==
    /\ [](/\ writes \cap AllReferencePaths = {}
          /\ \A r \in DOMAIN runs : runs[r].pc = "done" => AsOnFreshInstance(r))
    /\ [][/\ inst' = inst
          /\ \A q \in AllReferencePaths : ReadFile(disk', q) = ReadFile(disk, q)]_vars

\* A run call has returned on an instance after an earlier call on the same
\* instance wrote its merged files into the other output directory.
C15_Witness ==
    /\ runs # <<>>
    /\ runs[1].pc = "done"
    /\ runs[1].result.kind = "ok"
    /\ runs[1].inst = 1
    /\ runs[2].pc = "idle"
    /\ Cardinality(writes) = 4

\* The paths a step of run call r may write: the two merged files of its own
\* output directory.
OwnPaths(r) ==
    {runs[r].out_dir \o "/merged_genotype.txt", runs[r].out_dir \o "/merged_location.txt"}

ChangedPaths ==
    (writes' \ writes)
    \cup {q \in DOMAIN disk' : ReadFile(disk', q) # ReadFile(disk, q)}

\* A finished run call has the outcome, and has left the merged files, of
\* the same call made alone.
AsAlone(r) ==
    \E m \in MkdirOutcomes :
        LET a == RunAlone(inst[runs[r].inst], runs[r].inst, runs[r].test_vcf,
                          runs[r].out_dir, m, runs[r].outcome, InputFiles)
        IN  /\ SameOutcome(runs[r], a.run)
            /\ \A q \in a.opened : ReadFile(disk, q) = ReadFile(a.disk, q)

\* C16: two run calls executing concurrently with distinct output
\* directories, on the same or on different instances: under every
\* interleaving a step of a call writes only the merged files of that call's
\* own output directory, and a call that ends has the merged files and the
\* outcome of the same call executed alone.
C16_ConcurrentRunsIndependent ==
    /\ [](\A r \in DOMAIN runs : runs[r].pc = "done" => AsAlone(r))
    /\ [][\A q \in ChangedPaths :
             \E r \in DOMAIN runs : runs'[r] # runs[r] /\ q \in OwnPaths(r)]_vars

\* Two calls on the same instance, in progress at the same time with distinct
\* output directories and distinct uploads, have both returned.
C16_Witness ==
    /\ runs # <<>>
    /\ runs[1].pc = "done" /\ runs[2].pc = "done"
    /\ runs[1].result.kind = "ok" /\ runs[2].result.kind = "ok"
    /\ runs[1].inst = runs[2].inst
    /\ runs[1].out_dir # runs[2].out_dir
    /\ runs[1].test_vcf # runs[2].test_vcf

\* A line that gives a sample: at least two tokens, of which the first two
\* parse as numbers.
UsableLine(line) ==
    /\ Len(line) >= 2
    /\ IsFloatLiteral(line[1])
    /\ IsFloatLiteral(line[2])

\* The number of usable lines before the final line of the file.
UsableCount ==
    Cardinality({k \in 1..(Len(cr_file.lines) - 1) : UsableLine(cr_file.lines[k])})

EstimatorCalled == cr_out # NotCalled

\* C19: the estimator never counts the final line of the posterior-sample
\* file as a sample, whatever its content; the samples read, and the sample
\* count reported, number the non-final lines that have at least two tokens
\* of which the first two parse as numbers.
C19_FinalLineNeverCounted ==
    EstimatorCalled =>
        /\ cr_samples.kind = "ok" => Len(cr_samples.value) = UsableCount
        /\ cr_samples.kind = "raise" => (cr_file.st = "missing" \/ UsableCount = 0)
        /\ cr_out.kind = "ok" => cr_out.value.n_samples = UsableCount

\* The estimator has reported 3 samples for a file of four lines whose
\* final line has two numeric tokens.
C19_Witness ==
    /\ cr_out.kind = "ok"
    /\ cr_out.value.n_samples = 3
    /\ Len(cr_file.lines) = 4
    /\ UsableLine(cr_file.lines[4])

ConfidenceInRange == 0 < cr_conf /\ cr_conf < 100

\* C20: for every confidence that is not strictly between 0 and 1, and for
\* every posterior-sample file that yields fewer than 3 usable samples, the
\* estimator raises an error and returns no polygon; it returns a result
\* only when the confidence is in (0,1) and at least 3 samples are usable.
C20_FailsOutsideRangeOrUnderThreeSamples ==
    EstimatorCalled =>
        /\ ~ConfidenceInRange => cr_out.kind = "raise"
        /\ (cr_file.st = "missing" \/ UsableCount < 3) => cr_out.kind = "raise"
        /\ cr_out.kind = "ok" =>
              /\ ConfidenceInRange
              /\ cr_file.st = "ok"
              /\ UsableCount >= 3

\* The estimator has raised for confidence 1 on a file with 3 usable
\* samples.
C20_Witness ==
    /\ cr_out.kind = "raise"
    /\ cr_conf = 100
    /\ cr_file.st = "ok"
    /\ UsableCount = 3

PolygonReturned == cr_out.kind = "ok"
Vertices == cr_out.value.polygon.vertices

\* Two vertices are the same point: images of the same point of the unit
\* circle under the same map.
Coincide(v, w) == v.on_circle = w.on_circle /\ v.map = w.map

\* The samples read are one point repeated.
AllSamplesEqual ==
    /\ AllFinite(cr_samples.value)
    /\ \A k \in DOMAIN cr_samples.value : cr_samples.value[k] = cr_samples.value[1]

C21_EllipseReached == PolygonReturned /\ cr_out.value.polygon.branch = "ellipse"

TestPipelineAnswered == tp.kind = "called"

\* C22: the test-pipeline endpoint answers with status 200 or with status
\* 500, never with 400 or 404, whatever made it fail: missing reference
\* files, a missing executable, a missing sample file, an error of the
\* pipeline.
C22_FailureAnswersWith500 ==
    TestPipelineAnswered => tp.response.status \in {200, 500}

\* The test file was parsed and gave a number of samples other than one.
TestFileNotOneSample ==
    /\ pc \in {"invoking", "done"}
    /\ parsed.te.kind = "ok"
    /\ Len(parsed.te.value.samples) # 1

\* C23: when the test genotype file parses to a number of samples other
\* than one, the conversion fails with the code E002, naming the number
\* found, and neither merged file has been opened for writing.
C23_NotOneSampleFailsBeforeWriting ==
    TestFileNotOneSample =>
        /\ conv_err # NoError
        /\ conv_err.error_code = "E002"
        /\ InText(IntToStr(Len(parsed.te.value.samples)), conv_err.message)
        /\ merged_geno = Absent
        /\ merged_loc = Absent
        /\ proc.launched = 0

\* The conversion has failed on a test file of two samples.
C23_Witness ==
    /\ TestFileNotOneSample
    /\ parsed.te.value.samples = <<"X", "Y">>
    /\ conv_err # NoError
    /\ conv_err.error_code = "E002"
    /\ ~merged_geno.written

\* A line of the file given to the parser is a data line: neither a comment
\* nor the header nor blank.
DataLine(parts) == ~StartsWithHash(parts[1]) /\ ~IsBlank(parts)

\* A data line the parser skips with a warning: fewer than 9 columns, or a
\* FORMAT column without GT.
SkippedLine(parts) == DataLine(parts) /\ (Len(parts) < 9 \/ ~Contains(parts[9], "GT"))

\* A data line with a column for each of k samples, each holding the GT
\* subfield.
WellFormedLine(parts, k) ==
    /\ DataLine(parts)
    /\ ~SkippedLine(parts)
    /\ Len(parts) >= 9 + k
    /\ \A i \in 10..(9 + k) : Len(parts[i]) > FmtIndexGT(parts[9])

\* The lines after the header line, by their number.
AfterHeader ==
    {j \in DOMAIN vcf_in.lines :
        \E h \in 1..(j - 1) : vcf_in.lines[h][1] = "#CHROM"}

NonSkippedLines ==
    {j \in AfterHeader : DataLine(vcf_in.lines[j]) /\ ~SkippedLine(vcf_in.lines[j])}

WellFormedLines ==
    {j \in NonSkippedLines : WellFormedLine(vcf_in.lines[j], Len(vcf_out.value.samples))}

ParsedOk == vcf_out.kind = "ok"

ParserCalled == vcf_out # NotCalled

HeaderLines == {j \in DOMAIN vcf_in.lines : vcf_in.lines[j][1] = "#CHROM"}

\* The file can be read and a header line of it has fewer than 9 columns.
ShortHeader == vcf_in.st = "ok" /\ \E j \in HeaderLines : Len(vcf_in.lines[j]) < 9

\* The file can be read and names no sample: it has no header line, or its
\* header line has no column after the 9th.
NamesNoSample ==
    /\ vcf_in.st = "ok"
    /\ \A j \in HeaderLines : Len(vcf_in.lines[j]) <= 9

\* C25: parsing fails with the code E002 whenever the header line has
\* fewer than 9 columns or the file yields no sample (no header line, or a
\* header line with no column after the 9th); a sample list that is returned
\* is never empty.
C25_NoSamplesFailsWithE002 ==
    ParserCalled =>
        /\ (ShortHeader \/ NamesNoSample) =>
              /\ vcf_out.kind = "raise"
              /\ vcf_out.err.kind = "SCATPipelineError"
              /\ vcf_out.err.error_code = "E002"
        /\ vcf_out.kind = "ok" => vcf_out.value.samples # <<>>

\* The parser has failed on a file whose header line has 9 columns and
\* whose other line is well-formed.
C25_Witness ==
    /\ ParserCalled
    /\ Len(vcf_in.lines) = 2
    /\ Len(vcf_in.lines[1]) = 9
    /\ vcf_in.lines[1][1] = "#CHROM"
    /\ DataLine(vcf_in.lines[2]) /\ ~SkippedLine(vcf_in.lines[2])
    /\ vcf_out.kind = "raise"
    /\ vcf_out.err.error_code = "E002"
    /\ InText("no samples found", vcf_out.err.message)

\* _convert_vcfs_to_scat_format has returned normally.
ConversionSucceeded ==
    /\ pc \in {"invoking", "done"}
    /\ conv_err = NoError
    /\ merged_geno.written
    /\ merged_loc.written

AlleleValues(row) == Len(row) - 2

\* C27: whenever the process is launched, the locus-count argument of its
\* command line (the tenth word) is the number of allele values of each row
\* of the merged genotype file, whatever panel size the pipeline was
\* constructed with.
C27_LocusCountArgumentMatchesFile ==
    Launched =>
        \A i \in DOMAIN merged_geno.rows :
            proc.cmd[10] = IntToStr(AlleleValues(merged_geno.rows[i]))

\* The location rows of the merged location file for an identifier.
LocationRowsOf(name) ==
    {k \in DOMAIN merged_loc.rows : merged_loc.rows[k][1] = name}

\* C28: after a successful conversion, every row of the merged genotype file
\* with a positive location index i names a reference specimen that has
\* exactly one row in the merged location file, and that row carries the
\* index i; also when the test specimen is named like a reference specimen
\* and when the location file is not in the order of the panel's header.
C28_IndexedSpecimensAreLocated ==
    ConversionSucceeded =>
        \A i \in DOMAIN merged_geno.rows :
            merged_geno.rows[i][2] # "-1" =>
                /\ Cardinality(LocationRowsOf(merged_geno.rows[i][1])) = 1
                /\ \A k \in LocationRowsOf(merged_geno.rows[i][1]) :
                      merged_loc.rows[k][2] = merged_geno.rows[i][2]

\* The same for the runs whose test specimen is not named like a reference
\* specimen.
IndexedSpecimensAreLocatedUnlessNamesake ==
    (ConversionSucceeded /\ TestName \notin Range(parsed.tr.value.samples)) =>
        \A i \in DOMAIN merged_geno.rows :
            merged_geno.rows[i][2] # "-1" =>
                /\ Cardinality(LocationRowsOf(merged_geno.rows[i][1])) = 1
                /\ \A k \in LocationRowsOf(merged_geno.rows[i][1]) :
                      merged_loc.rows[k][2] = merged_geno.rows[i][2]

\* C29: the genotype-file and location-file arguments of the launched
\* process, resolved from the working directory of the process, are the
\* merged files the converter has just written.
C29_ProcessArgumentsNameTheMergedFiles ==
    (tp # NotCalled /\ tp.launched) => opened_by_process(tp.paths) = tp.written

\* The response of a request that found the temporary file gone.
TempFileGone(i) ==
    /\ posts[i].response.status = HTTP_500_INTERNAL_SERVER_ERROR
    /\ posts[i].response.error = <<"Processing failed: ">> \o Str(temp_file_gone)

\* C30: of two requests handled at the same time, each hashes, moves and
\* analyses the content it uploaded itself, and none fails because the
\* temporary file is gone.
C30_EachRequestWorksOnItsOwnUpload ==
    \A i \in DOMAIN posts :
        /\ posts[i].hashed \in {NoContent, posts[i].request.content}
        /\ posts[i].moved \in {NoContent, posts[i].request.content}
        /\ posts[i].analysed \in {NoContent, posts[i].request.content}
        /\ ~TempFileGone(i)

\* With an absolute output directory, as post gives it, the arguments of the
\* process name the merged files.
AbsoluteOutputDirNamesTheMergedFiles ==
    \A i \in DOMAIN posts :
        posts[i].launched =>
            opened_by_process(posts[i].paths)
                = [geno_file |-> posts[i].written.geno_file,
                   loc_file |-> posts[i].written.loc_file]

\* A request handled alone works on its own upload.
AloneWorksOnOwnUpload ==
    (\E i \in DOMAIN posts : posts[i].pc = "received") =>
        \A j \in DOMAIN posts :
            /\ posts[j].hashed \in {NoContent, posts[j].request.content}
            /\ posts[j].moved \in {NoContent, posts[j].request.content}
            /\ posts[j].analysed \in {NoContent, posts[j].request.content}
            /\ ~TempFileGone(j)

====
